---------------------------- MODULE Spec2Model ----------------------------
(***************************************************************************)
(* A model of the PortfolioAnalyzer ingestion pipeline:                    *)
(*   - portfolio_analyzer.py : process_portfolio_data,                     *)
(*                             categorize_by_asset_class,                  *)
(*                             calculate_asset_allocation                  *)
(*   - app2.py               : the upload handler (format detection,       *)
(*                             ledger aggregation, ledger allocation)      *)
(*   - market_data.py        : get_symbol_from_isin,                       *)
(*                             infer_symbol_from_name,                     *)
(*                             update_portfolio_data                       *)
(*   - market_dashboard.py   : display_portfolio_market_data (summary)     *)
(*                                                                         *)
(* Text is a sequence of one-character strings, so that str.lower(), the   *)
(* substring test `term in text` and the order of strings are computed.    *)
(* A number is an exact rational [n, d] in lowest terms; the three floats  *)
(* that are not numbers are inf = [1, 0], -inf = [-1, 0], NaN = [0, 0].    *)
(* A cell of a data frame is a text or a number; a missing cell is the     *)
(* number NaN, as in pandas.  Column labels are strings.                   *)
(***************************************************************************)
EXTENDS Integers, Sequences, FiniteSets, TLC

VARIABLES
    pc,                    \* position of the running operation
    quicksort_ties,        \* the build: what numpy's quicksort does to equal keys
    cat_in,                \* map_category_to_asset_class: argument
    cat_out,               \* map_category_to_asset_class: result
    nome_titolo,           \* a security name, as the two name functions get it
    ledger_category,       \* categorize_security: result
    inferred,              \* infer_symbol_from_name: result ("" is None)
    raw_df,                \* app2.py: the sheet as read_excel returns it
    header_row,            \* app2.py: header_row (-1 is None)
    is_transaction_list,   \* app2.py: is_transaction_list
    df,                    \* app2.py: df (ledger body, or the holdings table)
    securities,            \* app2.py: securities
    total_portfolio_value, \* app2.py: total_portfolio_value
    missing_columns,       \* app2.py: missing_columns
    shown,                 \* app2.py: what the page shows ("", a chart, an error)
    portfolio_data,        \* what process_portfolio_data returned
    asset_allocation,      \* the asset-allocation frame
    second_allocation,     \* what a second call on the same table returned
    portfolio_df,          \* update_portfolio_data: the caller's frame
    updated_df,            \* update_portfolio_data: updated_df
    idx,                   \* update_portfolio_data: the row the loop is at
    symbols,               \* the symbol given to yf.Ticker, per row so far ("" is none)
    feed,                  \* what the price service answered, per row so far
    metric                 \* market_dashboard.py: what st.metric is given

classifyVars == <<cat_in, cat_out>>
namesVars == <<nome_titolo, ledger_category, inferred>>
uploadVars == <<raw_df, header_row, is_transaction_list, securities,
                total_portfolio_value, missing_columns, shown>>
holdingsVars == <<df, portfolio_data, asset_allocation, second_allocation>>
reconcileVars == <<portfolio_df, updated_df, idx, symbols, feed, metric>>
vars == <<pc, quicksort_ties, cat_in, cat_out, nome_titolo, ledger_category,
          inferred, raw_df, header_row, is_transaction_list, df, securities,
          total_portfolio_value,
          missing_columns, shown, portfolio_data, asset_allocation,
          second_allocation, portfolio_df, updated_df, idx, symbols, feed,
          metric>>

(***************************************************************************)
(* Bounds of the model.                                                    *)
(***************************************************************************)
MaxFrags == 2
MaxNameFrags == 2
MaxHoldings == 2
MaxRows == 3
MaxSecurities == 6
MaxReconciled == 2

(***************************************************************************)
(* Text.                                                                   *)
(***************************************************************************)
\* str.lower() on one character
LowerChar(c) ==
    LET upper == <<"A","B","C","D","E","F","G","H","I","J","K","L","M",
                   "N","O","P","Q","R","S","T","U","V","W","X","Y","Z">>
        lower == <<"a","b","c","d","e","f","g","h","i","j","k","l","m",
                   "n","o","p","q","r","s","t","u","v","w","x","y","z">>
    IN  IF \E i \in 1..Len(upper) : upper[i] = c
        THEN lower[CHOOSE i \in 1..Len(upper) : upper[i] = c]
        ELSE c

\* str.lower()
Lower(s) == [i \in 1..Len(s) |-> LowerChar(s[i])]

\* Python's `needle in hay` on strings
Contains(hay, needle) ==
    \E i \in 0..(Len(hay) - Len(needle)) :
        \A j \in 1..Len(needle) : hay[i + j] = needle[j]

\* any(term in text for term in terms)
AnyTermIn(terms, text) ==
    \E k \in 1..Len(terms) : Contains(text, terms[k])

\* the place of a character among the characters of the model's texts, in
\* code-point order
CharRank(c) ==
    LET order ==
          <<" ","%","&","(",")","-",".","0","1","2","3","4","5","6","7","8",
            "9",":","?",
            "A","B","C","D","E","F","G","H","I","J","K","L","M",
            "N","O","P","Q","R","S","T","U","V","W","X","Y","Z","_",
            "a","b","c","d","e","f","g","h","i","j","k","l","m",
            "n","o","p","q","r","s","t","u","v","w","x","y","z">>
    IN  CHOOSE i \in 1..Len(order) : order[i] = c

\* a < b on Python strings
LexLt(a, b) ==
    \E k \in 1..Len(b) :
        /\ k <= Len(a) + 1
        /\ \A j \in 1..(k - 1) : a[j] = b[j]
        /\ \/ k = Len(a) + 1
           \/ CharRank(a[k]) < CharRank(b[k])

RECURSIVE SeqsUpTo(_, _)
\* the sequences of at most n members of S
SeqsUpTo(S, n) ==
    IF n = 0 THEN { <<>> }
    ELSE LET shorter == SeqsUpTo(S, n - 1) IN
         shorter \cup { Append(q, x) : q \in shorter, x \in S }

(***************************************************************************)
(* Numbers.                                                                *)
(***************************************************************************)
Abs(x) == IF x < 0 THEN -x ELSE x

Sign(x) == IF x < 0 THEN -1 ELSE IF x > 0 THEN 1 ELSE 0

RECURSIVE GCD(_, _)
GCD(a, b) == IF b = 0 THEN a ELSE GCD(b, a % b)

\* the float n / d, numpy's way: a zero divisor gives inf, -inf or NaN
Rat(n, d) ==
    IF d = 0 THEN [n |-> Sign(n), d |-> 0]
    ELSE LET g == GCD(Abs(n), Abs(d)) IN
         [n |-> Sign(d) * (n \div g), d |-> Abs(d) \div g]

NaN == [n |-> 0, d |-> 0]

IsNaN(x) == x.d = 0 /\ x.n = 0

IsFinite(x) == x.d > 0

FromInt(i) == [n |-> i, d |-> 1]

RatNeg(x) == [n |-> -x.n, d |-> x.d]

RatAdd(x, y) ==
    IF IsFinite(x) /\ IsFinite(y) THEN Rat(x.n * y.d + y.n * x.d, x.d * y.d)
    ELSE IF IsNaN(x) \/ IsNaN(y) THEN NaN
    ELSE IF IsFinite(x) THEN y
    ELSE IF IsFinite(y) THEN x
    ELSE IF x.n = y.n THEN x
    ELSE NaN

RatSub(x, y) == RatAdd(x, RatNeg(y))

RatMul(x, y) ==
    IF IsFinite(x) /\ IsFinite(y) THEN Rat(x.n * y.n, x.d * y.d)
    ELSE IF IsNaN(x) \/ IsNaN(y) THEN NaN
    ELSE Rat(Sign(x.n) * Sign(y.n), 0)

\* x / y on numpy floats: never raises
RatDiv(x, y) ==
    IF IsFinite(x) /\ IsFinite(y) THEN Rat(x.n * y.d, x.d * y.n)
    ELSE IF IsNaN(x) \/ IsNaN(y) THEN NaN
    ELSE IF IsFinite(y) THEN Rat(x.n * (IF y.n < 0 THEN -1 ELSE 1), 0)
    ELSE IF IsFinite(x) THEN FromInt(0)
    ELSE NaN

\* x < y on floats: false when either is NaN
RatLt(x, y) ==
    IF IsNaN(x) \/ IsNaN(y) THEN FALSE
    ELSE IF IsFinite(x) /\ IsFinite(y) THEN x.n * y.d < y.n * x.d
    ELSE IF ~IsFinite(x) /\ ~IsFinite(y) THEN x.n < y.n
    ELSE IF ~IsFinite(x) THEN x.n < 0
    ELSE y.n > 0

RatAbs(x) == [n |-> Abs(x.n), d |-> x.d]

RECURSIVE RatSumSkipNa(_)
\* Series.sum(): missing values are skipped, the empty sum is 0
RatSumSkipNa(s) ==
    IF s = <<>> THEN FromInt(0)
    ELSE IF IsNaN(Head(s)) THEN RatSumSkipNa(Tail(s))
    ELSE RatAdd(Head(s), RatSumSkipNa(Tail(s)))

\* Series.mean(): the mean of the values that are not missing, NaN if none
RatMeanSkipNa(s) ==
    LET present == SelectSeq(s, LAMBDA x : ~IsNaN(x)) IN
    RatDiv(RatSumSkipNa(present), FromInt(Len(present)))

\* Series.round(2) of one value: the nearest multiple of 0.01.  When the
\* value lies midway between two of them the binary float decides, so
\* either neighbour is a possible result.
Round2Choices(x) ==
    IF ~IsFinite(x) THEN { x }
    ELSE LET num == x.n * 100
             lo  == num \div x.d
             rem == num - lo * x.d
         IN  IF 2 * rem < x.d THEN { Rat(lo, 100) }
             ELSE IF 2 * rem > x.d THEN { Rat(lo + 1, 100) }
             ELSE { Rat(lo, 100), Rat(lo + 1, 100) }

(***************************************************************************)
(* Cells and data frames.  A frame is its set of column labels and its     *)
(* rows; a row maps each column label to the cell.                         *)
(***************************************************************************)
Text(s) == [t |-> "text", s |-> s, q |-> FromInt(0)]

Num(q) == [t |-> "num", s |-> <<>>, q |-> q]

Int2Cell(i) == Num(FromInt(i))

NaNCell == Num(NaN)

\* pd.notna(cell)
NotNa(cell) == ~(cell.t = "num" /\ IsNaN(cell.q))

\* str(cell): the text itself, 'nan' for a missing cell; the text of any
\* other number holds digits, sign and point, here one digit
Str(cell) ==
    IF cell.t = "text" THEN cell.s
    ELSE IF IsNaN(cell.q) THEN <<"n","a","n">>
    ELSE <<"0">>

\* the number in a cell of a numeric column
Val(cell) == cell.q

\* df[new] = vals
WithColumn(frame, new, vals) ==
    [cols |-> frame.cols \cup {new},
     rows |-> [i \in 1..Len(frame.rows) |->
                 [c \in frame.cols \cup {new} |->
                     IF c = new THEN vals[i] ELSE frame.rows[i][c]]]]

\* df[col]
Column(frame, col) == [i \in 1..Len(frame.rows) |-> frame.rows[i][col]]

\* df[col].sum() of a numeric column
SumColumn(frame, col) ==
    RatSumSkipNa([i \in 1..Len(frame.rows) |-> Val(frame.rows[i][col])])

Restrict(row, cols) == [c \in cols |-> row[c]]

NoFrame == [cols |-> {}, rows |-> <<>>]

(***************************************************************************)
(* portfolio_analyzer.py: map_category_to_asset_class                      *)
(***************************************************************************)
\* the asset-class labels of portfolio_analyzer.py
ClassLabel ==
    [ Stocks |-> <<"S","t","o","c","k","s">>,
      Bonds |-> <<"B","o","n","d","s">>,
      MoneyMarket |-> <<"M","o","n","e","y"," ","M","a","r","k","e","t">>,
      Commodities |-> <<"C","o","m","m","o","d","i","t","i","e","s">>,
      RealEstate |-> <<"R","e","a","l"," ","E","s","t","a","t","e">>,
      Alternatives |-> <<"A","l","t","e","r","n","a","t","i","v","e","s">>,
      Other |-> <<"O","t","h","e","r">>,
      Unknown |-> <<"U","n","k","n","o","w","n">>,
      Cash |-> <<"C","a","s","h">>,
      NoData |-> <<"N","o"," ","D","a","t","a">> ]

\* the keyword lists of map_category_to_asset_class, in the order of its tests
CategoryTerms ==
    [ Stocks |->
         << <<"a","z","i","o","n","i">>,
            <<"a","z","i","o","n">>,
            <<"s","t","o","c","k">>,
            <<"e","q","u","i","t","y">>,
            <<"s","h","a","r","e">> >>,
      Bonds |->
         << <<"o","b","b","l","i","g">>,
            <<"b","o","n","d">>,
            <<"f","i","x","e","d"," ","i","n","c","o","m","e">>,
            <<"t","r","e","a","s","u","r","y">> >>,
      MoneyMarket |->
         << <<"m","o","n","e","t","a","r","i","o">>,
            <<"m","o","n","e","y"," ","m","a","r","k","e","t">>,
            <<"l","i","q","u","i","d","i","t","y">>,
            <<"c","a","s","h">> >>,
      Commodities |->
         << <<"c","o","m","m","o","d","i","t">>,
            <<"m","a","t","e","r","i","e"," ","p","r","i","m","e">>,
            <<"g","o","l","d">>,
            <<"s","i","l","v","e","r">>,
            <<"o","i","l">> >>,
      RealEstate |->
         << <<"i","m","m","o","b","i","l">>,
            <<"r","e","a","l"," ","e","s","t","a","t","e">>,
            <<"r","e","i","t">> >>,
      Alternatives |->
         << <<"a","l","t","e","r","n","a","t","i","v">>,
            <<"h","e","d","g","e">>,
            <<"p","r","i","v","a","t","e"," ","e","q","u","i","t","y">> >> ]

\* a plausible slip: the Bonds test placed before the Stocks test
map_category_to_asset_class_BondsFirst(category) ==
    LET c == Lower(category) IN
    IF AnyTermIn(CategoryTerms.Bonds, c) THEN ClassLabel.Bonds
    ELSE IF AnyTermIn(CategoryTerms.Stocks, c) THEN ClassLabel.Stocks
    ELSE IF AnyTermIn(CategoryTerms.MoneyMarket, c) THEN ClassLabel.MoneyMarket
    ELSE IF AnyTermIn(CategoryTerms.Commodities, c) THEN ClassLabel.Commodities
    ELSE IF AnyTermIn(CategoryTerms.RealEstate, c) THEN ClassLabel.RealEstate
    ELSE IF AnyTermIn(CategoryTerms.Alternatives, c) THEN ClassLabel.Alternatives
    ELSE ClassLabel.Other

\* `category` is str(category) already: the text of the cell
map_category_to_asset_class(category) ==
    LET c == Lower(category) IN
    IF AnyTermIn(CategoryTerms.Stocks, c) THEN ClassLabel.Stocks
    ELSE IF AnyTermIn(CategoryTerms.Bonds, c) THEN ClassLabel.Bonds
    ELSE IF AnyTermIn(CategoryTerms.MoneyMarket, c) THEN ClassLabel.MoneyMarket
    ELSE IF AnyTermIn(CategoryTerms.Commodities, c) THEN ClassLabel.Commodities
    ELSE IF AnyTermIn(CategoryTerms.RealEstate, c) THEN ClassLabel.RealEstate
    ELSE IF AnyTermIn(CategoryTerms.Alternatives, c) THEN ClassLabel.Alternatives
    ELSE ClassLabel.Other

(***************************************************************************)
(* groupby: one group per key present, the keys in sorted order; a row     *)
(* with a missing key cell is in no group.                                 *)
(***************************************************************************)
\* a < b on tuples of strings
TupleLt(a, b) ==
    \E k \in 1..Len(a) :
        /\ \A j \in 1..(k - 1) : a[j] = b[j]
        /\ LexLt(a[k], b[k])

RECURSIVE SortedKeys(_)
SortedKeys(S) ==
    IF S = {} THEN <<>>
    ELSE LET least == CHOOSE k \in S : \A o \in S \ {k} : TupleLt(k, o)
         IN  <<least>> \o SortedKeys(S \ {least})

\* the key of a row under the key columns, as a tuple of strings
KeyOf(row, keycols) == [j \in 1..Len(keycols) |-> Str(row[keycols[j]])]

HasKey(row, keycols) == \A j \in 1..Len(keycols) : NotNa(row[keycols[j]])

GroupKeys(frame, keycols) ==
    SortedKeys({ KeyOf(frame.rows[i], keycols) :
                   i \in { r \in 1..Len(frame.rows) :
                             HasKey(frame.rows[r], keycols) } })

\* the values of column `col` in the rows of the group of `key`
GroupValues(frame, keycols, key, col) ==
    LET members == SelectSeq(frame.rows,
                      LAMBDA r : HasKey(r, keycols) /\ KeyOf(r, keycols) = key)
    IN  [i \in 1..Len(members) |-> Val(members[i][col])]

(***************************************************************************)
(* portfolio_analyzer.py: process_portfolio_data,                          *)
(* categorize_by_asset_class, calculate_asset_allocation                   *)
(***************************************************************************)
column_mapping ==
    << <<"Controvalore", "value">>,
       <<"Rendimento", "return_value">>,
       <<"Rendimento %", "return_percentage">>,
       <<"Nome", "name">>,
       <<"Categoria", "category">>,
       <<"TER", "ter">>,
       <<"Allocazione", "allocation">> >>

RECURSIVE RenameColumns(_, _)
\* for old_col, new_col in column_mapping.items(): copy the column if present
RenameColumns(frame, k) ==
    IF k > Len(column_mapping) THEN frame
    ELSE LET old == column_mapping[k][1]
             new == column_mapping[k][2]
         IN  RenameColumns(IF old \in frame.cols
                           THEN WithColumn(frame, new, Column(frame, old))
                           ELSE frame,
                           k + 1)

categorize_by_asset_class(frame) ==
    IF "category" \in frame.cols
    THEN [i \in 1..Len(frame.rows) |->
             Text(map_category_to_asset_class(Str(frame.rows[i]["category"])))]
    ELSE IF "Categoria" \in frame.cols
    THEN [i \in 1..Len(frame.rows) |->
             Text(map_category_to_asset_class(Str(frame.rows[i]["Categoria"])))]
    ELSE [i \in 1..Len(frame.rows) |-> Text(ClassLabel.Unknown)]

\* a plausible slip: the asset class is derived from the category even when
\* the table brings its own asset_class column
process_portfolio_data_AlwaysCategorize(frame) ==
    LET df_processed == RenameColumns(frame, 1)
        total_value ==
            IF "value" \in df_processed.cols
            THEN SumColumn(df_processed, "value") ELSE FromInt(0)
        total_return_value ==
            IF "return_value" \in df_processed.cols
            THEN SumColumn(df_processed, "return_value") ELSE FromInt(0)
    IN  [data |-> WithColumn(df_processed, "asset_class",
                             categorize_by_asset_class(df_processed)),
         total_value |-> total_value,
         total_return_value |-> total_return_value,
         total_return_percentage |->
            IF RatLt(FromInt(0), total_value)
            THEN RatMul(RatDiv(total_return_value,
                               RatSub(total_value, total_return_value)),
                        FromInt(100))
            ELSE FromInt(0)]

process_portfolio_data(frame) ==
    LET df_processed == RenameColumns(frame, 1)
        total_value ==
            IF "value" \in df_processed.cols
            THEN SumColumn(df_processed, "value")
            ELSE IF "Controvalore" \in df_processed.cols
            THEN SumColumn(df_processed, "Controvalore")
            ELSE FromInt(0)
        total_return_value ==
            IF "return_value" \in df_processed.cols
            THEN SumColumn(df_processed, "return_value")
            ELSE IF "Rendimento" \in df_processed.cols
            THEN SumColumn(df_processed, "Rendimento")
            ELSE FromInt(0)
        total_return_percentage ==
            IF RatLt(FromInt(0), total_value)
            THEN RatMul(RatDiv(total_return_value,
                               RatSub(total_value, total_return_value)),
                        FromInt(100))
            ELSE FromInt(0)
        data ==
            IF "asset_class" \notin df_processed.cols
            THEN WithColumn(df_processed, "asset_class",
                            categorize_by_asset_class(df_processed))
            ELSE df_processed
    IN  [data |-> data,
         total_value |-> total_value,
         total_return_value |-> total_return_value,
         total_return_percentage |-> total_return_percentage]

\* a plausible slip: the columns are added to the caller's frame itself
CallerFrameAfter_NoCopy(frame) == process_portfolio_data(frame).data

\* the caller's frame after process_portfolio_data(df): line 15 copies it
\* and every assignment of lines 29-57 is to the copy
CallerFrameAfter(frame) == frame

AllocationColumns == {"asset_class", "value", "allocation"}

AllocationRow(class, value, allocation) ==
    [c \in AllocationColumns |->
        CASE c = "asset_class" -> Text(class)
          [] c = "value" -> Num(value)
          [] c = "allocation" -> Num(allocation)]

\* df.groupby(key)[val].sum().reset_index(), then
\* allocation = value / value.sum() * 100
GroupAllocation(frame, key, val) ==
    LET keys == GroupKeys(frame, <<key>>)
        sums == [j \in 1..Len(keys) |->
                    RatSumSkipNa(GroupValues(frame, <<key>>, keys[j], val))]
        total == RatSumSkipNa(sums)
    IN  [cols |-> AllocationColumns,
         rows |-> [j \in 1..Len(keys) |->
                     AllocationRow(keys[j][1], sums[j],
                         RatMul(RatDiv(sums[j], total), FromInt(100)))]]

RECURSIVE EnsureClasses(_, _, _)
\* for asset_class in major: append a zero row if it is not an existing class
EnsureClasses(frame, existing, major) ==
    IF major = <<>> THEN frame
    ELSE EnsureClasses(
            IF Head(major) \in existing THEN frame
            ELSE [cols |-> frame.cols,
                  rows |-> Append(frame.rows,
                              AllocationRow(Head(major), FromInt(0), FromInt(0)))],
            existing, Tail(major))

\* sort_values is called without `kind`, so numpy's quicksort orders the
\* keys and promises nothing about equal ones: a build that sorts short
\* arrays by insertion keeps them in input order, a vectorised build does
\* not ("reversed" stands for every other order)
TieOrders == {"input order", "reversed"}

\* whether row e stays in front of row r when r, which came later, is put
\* in descending order of column `col`; missing keys go last, in input order
StaysBefore(e, r, col) ==
    \/ IsNaN(Val(r[col]))
    \/ /\ ~IsNaN(Val(e[col]))
       /\ IF Val(e[col]) = Val(r[col]) THEN quicksort_ties = "input order"
          ELSE RatLt(Val(r[col]), Val(e[col]))

InsertDescending(sorted, r, col) ==
    LET front == { i \in 0..Len(sorted) :
                     \A j \in 1..i : StaysBefore(sorted[j], r, col) }
        at == CHOOSE i \in front : \A q \in front : q <= i
    IN  SubSeq(sorted, 1, at) \o <<r>> \o SubSeq(sorted, at + 1, Len(sorted))

RECURSIVE SortDescending(_, _, _)
\* sort_values(col, ascending=False) of the rows `rest`
SortDescending(sorted, rest, col) ==
    IF rest = <<>> THEN sorted
    ELSE SortDescending(InsertDescending(sorted, Head(rest), col),
                        Tail(rest), col)

ExistingClasses(frame) ==
    { Str(frame.rows[j]["asset_class"]) : j \in 1..Len(frame.rows) }

major_asset_classes ==
    << ClassLabel.Stocks, ClassLabel.Bonds, ClassLabel.MoneyMarket,
       ClassLabel.Commodities, ClassLabel.Cash >>

calculate_asset_allocation(frame) ==
    LET df_processed == process_portfolio_data(frame).data
        value_col ==
            IF "value" \in df_processed.cols THEN "value"
            ELSE IF "Controvalore" \in df_processed.cols THEN "Controvalore"
            ELSE "none"
        grouped == GroupAllocation(df_processed, "asset_class", value_col)
        ensured == EnsureClasses(grouped, ExistingClasses(grouped),
                                 major_asset_classes)
    IN  IF value_col = "none"
        THEN [cols |-> {"asset_class", "allocation"},
              rows |-> << [c \in {"asset_class", "allocation"} |->
                             IF c = "asset_class" THEN Text(ClassLabel.NoData)
                             ELSE Int2Cell(100)] >>]
        ELSE [cols |-> ensured.cols,
              rows |-> SortDescending(<<>>, ensured.rows, "allocation")]

(***************************************************************************)
(* app2.py: the upload handler.  Format detection and header relocation.   *)
(***************************************************************************)
\* a plausible slip: the try ends where the format is known
ExceptionShown_TryEndsEarly(line) ==
    IF 29 <= line /\ line <= 43 THEN "error" ELSE "traceback"

\* where an exception raised at `line` ends: the try of line 28 encloses
\* lines 29-301 and its except clause (lines 302-304) shows the message
\* and the diagnostic detail; raised anywhere else it escapes the handler
ExceptionShown(line) ==
    IF 29 <= line /\ line <= 301 THEN "error" ELSE "traceback"

Sentinel == <<"O","p","e","r","a","z","i","o","n","e">>

\* a plausible slip: the search ignores case
RowHasSentinel_IgnoreCase(row) ==
    \E c \in DOMAIN row : Contains(Lower(Str(row[c])), Lower(Sentinel))

\* 'Operazione' in str(row.values): the stringified row holds each cell's
\* text, so the sentinel is in it iff it is in the text of one cell
RowHasSentinel(row) ==
    \E c \in DOMAIN row : Contains(Str(row[c]), Sentinel)

\* a plausible slip: the last matching row instead of the first
DetectHeaderRow_Last(frame) ==
    LET hits == { i \in 1..Len(frame.rows) : RowHasSentinel(frame.rows[i]) } IN
    IF hits = {} THEN -1
    ELSE (CHOOSE i \in hits : \A q \in hits : q <= i) - 1

\* for i, row in raw_df.iterrows(): ... break  (the index label i is the
\* 0-based position; -1 stands for None)
DetectHeaderRow(frame) ==
    LET hits == { i \in 1..Len(frame.rows) : RowHasSentinel(frame.rows[i]) } IN
    IF hits = {} THEN -1
    ELSE (CHOOSE i \in hits : \A q \in hits : i <= q) - 1

\* the column label a header cell becomes: the string with the cell's text
LabelTable ==
    << <<"Operazione", <<"O","p","e","r","a","z","i","o","n","e">>>>,
       <<"Titolo", <<"T","i","t","o","l","o">>>>,
       <<"Isin", <<"I","s","i","n">>>>,
       <<"Quantita", <<"Q","u","a","n","t","i","t","a">>>>,
       <<"Prezzo", <<"P","r","e","z","z","o">>>>,
       <<"Controvalore", <<"C","o","n","t","r","o","v","a","l","o","r","e">>>>,
       <<"Tipo Operazione", <<"T","i","p","o"," ","O","p","e","r","a","z","i","o","n","e">>>>,
       <<"Riepilogo Operazione", <<"R","i","e","p","i","l","o","g","o"," ","O","p","e","r","a","z","i","o","n","e">>>>,
       <<"nan", <<"n","a","n">>>> >>

LabelOf(cell) ==
    LET s == Str(cell) IN
    IF \E k \in 1..Len(LabelTable) : LabelTable[k][2] = s
    THEN LabelTable[CHOOSE k \in 1..Len(LabelTable) : LabelTable[k][2] = s][1]
    ELSE "?"

\* df.dropna(how='all')
AllNa(row) == \A c \in DOMAIN row : ~NotNa(row[c])

\* df.columns = df.iloc[header_row].values; df = df.iloc[header_row+1:];
\* df = df.dropna(how='all')
RelocateHeaderFrame(frame, h) ==
    LET header == frame.rows[h + 1]
        labels == { LabelOf(header[c]) : c \in frame.cols }
        source(l) == CHOOSE c \in frame.cols : LabelOf(header[c]) = l
        after == SubSeq(frame.rows, h + 2, Len(frame.rows))
        kept == SelectSeq(after, LAMBDA r : ~AllNa(r))
    IN  [cols |-> labels,
         rows |-> [i \in 1..Len(kept) |-> [l \in labels |-> kept[i][source(l)]]]]

(***************************************************************************)
(* app2.py: ledger aggregation, categories, allocation.                    *)
(***************************************************************************)
LedgerColumns == {"Titolo", "Isin", "Quantita", "Prezzo", "Controvalore"}

SecurityRow(titolo, isin, qty, avg, total) ==
    [c \in {"Titolo", "Isin", "total_quantity", "avg_price", "total_value"} |->
        CASE c = "Titolo" -> Text(titolo)
          [] c = "Isin" -> Text(isin)
          [] c = "total_quantity" -> Num(qty)
          [] c = "avg_price" -> Num(avg)
          [] c = "total_value" -> Num(total)]

\* df.groupby(['Titolo', 'Isin']).agg(total_quantity=('Quantita', 'sum'),
\*     avg_price=('Prezzo', 'mean'), total_value=('Controvalore', 'sum'))
\*   .reset_index()
GroupSecurities(frame) ==
    LET by == <<"Titolo", "Isin">>
        keys == GroupKeys(frame, by)
    IN  [j \in 1..Len(keys) |->
            SecurityRow(keys[j][1], keys[j][2],
                RatSumSkipNa(GroupValues(frame, by, keys[j], "Quantita")),
                RatMeanSkipNa(GroupValues(frame, by, keys[j], "Prezzo")),
                RatSumSkipNa(GroupValues(frame, by, keys[j], "Controvalore")))]

\* lines 55-59 raise KeyError when a column they name is not there, and
\* TypeError when a group holds a text where a price is averaged (the
\* sheets of the model have no text in the summed columns); a row groupby
\* leaves out is never aggregated
AggregationRaises(frame) ==
    IF LedgerColumns \subseteq frame.cols
    THEN \E i \in 1..Len(frame.rows) :
            /\ HasKey(frame.rows[i], <<"Titolo", "Isin">>)
            /\ frame.rows[i]["Prezzo"].t = "text"
    ELSE TRUE

\* the grouped securities, sorted by total value (descending)
AggregateSecurities(frame) ==
    [cols |-> {"Titolo", "Isin", "total_quantity", "avg_price", "total_value"},
     rows |-> SortDescending(<<>>, GroupSecurities(frame), "total_value")]

\* the category labels of app2.py's ledger branch; the last character of
\* 'Liquidità' is written a^
LedgerLabel ==
    [ Azionario |-> <<"A","z","i","o","n","a","r","i","o">>,
      Obbligazionario |-> <<"O","b","b","l","i","g","a","z","i","o","n","a","r","i","o">>,
      MateriePrime |-> <<"M","a","t","e","r","i","e"," ","P","r","i","m","e">>,
      Altro |-> <<"A","l","t","r","o">>,
      Liquidita |-> <<"L","i","q","u","i","d","i","t","a^">> ]

\* the keyword lists of categorize_security
SecurityTerms ==
    [ Azionario |->
         << <<"c","r"," ","5","0","0">>,
            <<"m","s","c","i">>,
            <<"e","q","u","i","t","y">>,
            <<"w","d">> >>,
      Obbligazionario |->
         << <<"g","o","v">>,
            <<"b","o","n","d">>,
            <<"e","h","y","c","b">> >>,
      MateriePrime |->
         << <<"g","o","l","d">>,
            <<"o","r">>,
            <<"c","o","m","m","o","d","i","t","y">> >> ]

\* a plausible slip: the name is not lower-cased
categorize_security_NoLower(name) ==
    IF AnyTermIn(SecurityTerms.Azionario, name) THEN LedgerLabel.Azionario
    ELSE IF AnyTermIn(SecurityTerms.Obbligazionario, name) THEN LedgerLabel.Obbligazionario
    ELSE IF AnyTermIn(SecurityTerms.MateriePrime, name) THEN LedgerLabel.MateriePrime
    ELSE LedgerLabel.Altro

\* `name` is str(name) already: the text of the cell
categorize_security(name) ==
    LET n == Lower(name) IN
    IF AnyTermIn(SecurityTerms.Azionario, n) THEN LedgerLabel.Azionario
    ELSE IF AnyTermIn(SecurityTerms.Obbligazionario, n) THEN LedgerLabel.Obbligazionario
    ELSE IF AnyTermIn(SecurityTerms.MateriePrime, n) THEN LedgerLabel.MateriePrime
    ELSE LedgerLabel.Altro

\* estimate_ter(row), in hundredths
estimate_ter(categoria) ==
    LET c == Lower(categoria) IN
    IF Contains(c, Lower(LedgerLabel.Azionario)) THEN Rat(20, 100)
    ELSE IF Contains(c, Lower(LedgerLabel.Obbligazionario)) THEN Rat(15, 100)
    ELSE IF Contains(c, Lower(LedgerLabel.MateriePrime)) THEN Rat(25, 100)
    ELSE Rat(22, 100)

RECURSIVE SeqProduct(_)
\* the sequences that take their i-th member from the i-th set
SeqProduct(sets) ==
    IF sets = <<>> THEN { <<>> }
    ELSE { <<x>> \o rest : x \in Head(sets), rest \in SeqProduct(Tail(sets)) }

\* a plausible slip: the share is not turned into a percentage
AllocazioneChoices_NoPercent(secs, total) ==
    SeqProduct([i \in 1..Len(secs.rows) |->
        Round2Choices(RatDiv(Val(secs.rows[i]["total_value"]), total))])

\* (securities['total_value'] / total_portfolio_value * 100).round(2):
\* every column the rounding can give
AllocazioneChoices(secs, total) ==
    SeqProduct([i \in 1..Len(secs.rows) |->
        Round2Choices(RatMul(RatDiv(Val(secs.rows[i]["total_value"]), total),
                             FromInt(100)))])

HoldingColumns ==
    {"Nome", "Isin", "total_quantity", "avg_price", "Controvalore",
     "Categoria", "Allocazione", "TER", "Rendimento %", "Rendimento"}

\* lines 80-108: Categoria, Allocazione, TER, the renames and the
\* placeholder returns, for the Allocazione column `alloc`
PrepareSecurities(secs, alloc) ==
    [cols |-> HoldingColumns,
     rows |-> [i \in 1..Len(secs.rows) |->
        LET r == secs.rows[i]
            cat == categorize_security(Str(r["Titolo"]))
        IN  [c \in HoldingColumns |->
                CASE c = "Nome" -> r["Titolo"]
                  [] c = "Controvalore" -> r["total_value"]
                  [] c = "Categoria" -> Text(cat)
                  [] c = "Allocazione" -> Num(alloc[i])
                  [] c = "TER" -> Num(estimate_ter(cat))
                  [] c = "Rendimento %" -> Int2Cell(0)
                  [] c = "Rendimento" -> Int2Cell(0)
                  [] OTHER -> r[c]]]]

ledger_major_asset_classes ==
    << LedgerLabel.Azionario, LedgerLabel.Obbligazionario,
       LedgerLabel.MateriePrime, LedgerLabel.Liquidita >>

\* lines 121-140
LedgerAssetAllocation(frame) ==
    LET grouped == GroupAllocation(frame, "Categoria", "Controvalore")
        ensured == EnsureClasses(grouped, ExistingClasses(grouped),
                                 ledger_major_asset_classes)
    IN  [cols |-> ensured.cols,
         rows |-> SortDescending(<<>>, ensured.rows, "allocation")]

(***************************************************************************)
(* app2.py: the standard-format branch.                                    *)
(***************************************************************************)
required_columns ==
    << "Nome", "Categoria", "TER", "Allocazione", "Controvalore",
       "Rendimento %", "Rendimento" >>

RequiredSet == { required_columns[i] : i \in 1..Len(required_columns) }

\* a plausible slip: a required column left out of the check
MissingColumns_NoTER(frame) ==
    SelectSeq(required_columns, LAMBDA c : c \notin frame.cols /\ c # "TER")

\* [col for col in required_columns if col not in raw_df.columns]
MissingColumns(frame) ==
    SelectSeq(required_columns, LAMBDA c : c \notin frame.cols)

(***************************************************************************)
(* market_data.py: symbol resolution.  A symbol is a string; "" is None.   *)
(***************************************************************************)
\* the entries of the dict literal, as written
ISIN_TO_SYMBOL ==
    << <<<<"I","E","0","0","B","4","L","5","Y","9","8","3">>, "IWDA.L">>,
       <<<<"I","E","0","0","B","3","R","B","W","M","2","5">>, "IWRD.L">>,
       <<<<"I","E","0","0","B","5","B","M","R","0","8","7">>, "SPY5.DE">>,
       <<<<"I","E","0","0","B","K","5","B","Q","T","8","0">>, "VWCE.DE">>,
       <<<<"I","E","0","0","B","4","W","X","J","J","6","4">>, "XMEM.DE">>,
       <<<<"I","E","0","0","B","6","0","S","W","X","2","5">>, "EIMI.L">>,
       <<<<"I","E","0","0","B","3","X","X","R","P","0","9">>, "XSXE.DE">>,
       <<<<"I","E","0","0","B","3","Z","W","0","K","1","8">>, "CSX5.MI">>,
       <<<<"I","E","0","0","B","4","2","W","4","L","0","6">>, "IWSM.L">>,
       <<<<"I","E","0","0","B","4","L","5","Y","C","1","8">>, "IWDA.L">>,
       <<<<"I","E","0","0","B","4","W","P","H","X","2","7">>, "IEAA.MI">>,
       <<<<"I","E","0","0","B","9","M","6","R","S","5","6">>, "JPST.SW">>,
       <<<<"L","U","1","6","5","0","4","8","7","4","1","3">>, "EUNH.DE">>,
       <<<<"I","E","0","0","B","3","F","8","1","R","3","5">>, "IBCX.DE">>,
       <<<<"I","E","0","0","B","0","M","6","2","X","2","6">>, "IBGX.DE">>,
       <<<<"F","R","0","0","1","0","7","5","4","1","8","4">>, "A35A.DE">>,
       <<<<"I","E","0","0","B","3","F","H","7","6","1","8">>, "IEGE.L">>,
       <<<<"I","E","0","0","B","5","L","0","1","S","8","0">>, "XBUH.DE">>,
       <<<<"I","E","0","0","B","4","N","D","3","6","0","2">>, "IGLN.L">>,
       <<<<"I","E","0","0","B","4","M","K","C","J","8","4">>, "SGLD.L">>,
       <<<<"I","E","0","0","B","5","7","9","F","3","2","5">>, "SGLD.L">>,
       <<<<"I","E","0","0","B","3","V","T","M","J","9","1">>, "XEIN.MI">>,
       <<<<"L","U","0","2","9","0","3","5","8","4","9","7">>, "XEON.DE">>,
       <<<<"L","U","0","2","9","0","3","5","8","4","9","7">>, "2AYI.DE">> >>

\* d.get(key) of a dict literal: the last entry written for the key
DictGet(entries, key) ==
    LET hits == { k \in 1..Len(entries) : entries[k][1] = key } IN
    IF hits = {} THEN ""
    ELSE entries[CHOOSE k \in hits : \A q \in hits : q <= k][2]

\* d.items() of a dict literal: keys in order of first appearance, each
\* with the last value written for it
DictItems(entries) ==
    LET first == SelectSeq([k \in 1..Len(entries) |-> k],
                    LAMBDA k : \A q \in 1..(k - 1) : entries[q][1] # entries[k][1])
    IN  [j \in 1..Len(first) |->
            <<entries[first[j]][1], DictGet(entries, entries[first[j]][1])>>]

get_symbol_from_isin(isin) ==
    IF isin.t = "text" THEN DictGet(ISIN_TO_SYMBOL, isin.s) ELSE ""

common_etf_names ==
    << <<<<"a","m","u","n","d","i"," ","e","u","r","o"," ","g","o","v","e","r","n","m","e","n","t"," ","b","o","n","d"," ","7","-","1","0","y">>, "A35A.DE">>,
       <<<<"i","s","h","a","r","e","s"," ","e","u","r","o"," ","g","o","v","e","r","n","m","e","n","t"," ","b","o","n","d"," ","1","-","3","y","r">>, "IEGE.L">>,
       <<<<"x","t","r","a","c","k","e","r","s"," ","e","u","r"," ","h","i","g","h"," ","y","i","e","l","d"," ","c","o","r","p","o","r","a","t","e"," ","b","o","n","d">>, "XBUH.DE">>,
       <<<<"i","s","h","a","r","e","s"," ","c","o","r","e"," ","m","s","c","i"," ","e","m","e","r","g","i","n","g"," ","m","a","r","k","e","t","s"," ","i","m","i">>, "EIMI.L">>,
       <<<<"x","t","r","a","c","k","e","r","s"," ","s","t","o","x","x"," ","e","u","r","o","p","e"," ","6","0","0">>, "XSXE.DE">>,
       <<<<"i","s","h","a","r","e","s"," ","c","o","r","e"," ","s","&","p"," ","5","0","0">>, "CSX5.MI">>,
       <<<<"i","s","h","a","r","e","s"," ","m","s","c","i"," ","w","o","r","l","d"," ","s","m","a","l","l"," ","c","a","p">>, "IWSM.L">>,
       <<<<"i","s","h","a","r","e","s"," ","c","o","r","e"," ","m","s","c","i"," ","w","o","r","l","d">>, "IWDA.L">>,
       <<<<"x","t","r","a","c","k","e","r","s"," ","i","i"," ","e","u","r"," ","o","v","e","r","n","i","g","h","t"," ","r","a","t","e"," ","s","w","a","p">>, "XEON.DE">>,
       <<<<"i","n","v","e","s","c","o"," ","p","h","y","s","i","c","a","l"," ","g","o","l","d">>, "SGLD.L">>,
       <<<<"i","s","h","a","r","e","s"," ","c","o","r","e"," ","m","s","c","i"," ","w","o","r","l","d">>, "IWDA.L">>,
       <<<<"i","s","h","a","r","e","s"," ","m","s","c","i"," ","w","o","r","l","d">>, "URTH">>,
       <<<<"m","s","c","i"," ","w","o","r","l","d">>, "IWDA.L">>,
       <<<<"c","o","r","e"," ","s","&","p"," ","5","0","0">>, "IVV">>,
       <<<<"s","&","p"," ","5","0","0">>, "SPY">>,
       <<<<"v","a","n","g","u","a","r","d"," ","f","t","s","e">>, "VGK">>,
       <<<<"x","t","r","a","c","k","e","r","s"," ","m","s","c","i">>, "XMWO.DE">>,
       <<<<"x","t","r","a","c","k","e","r","s"," ","s","&","p">>, "XSPD.DE">>,
       <<<<"e","u","r","o"," ","g","o","v","e","r","n","m","e","n","t"," ","b","o","n","d">>, "EGOV.MI">>,
       <<<<"e","u","r","o"," ","g","o","v">>, "EGOV.MI">>,
       <<<<"t","r","e","a","s","u","r","y"," ","b","o","n","d">>, "IDTL.L">>,
       <<<<"e","m","e","r","g","i","n","g"," ","m","a","r","k","e","t","s">>, "EEM">>,
       <<<<"m","s","c","i"," ","e","m","e","r","g","i","n","g">>, "EIMI.L">>,
       <<<<"h","i","g","h"," ","y","i","e","l","d"," ","c","o","r","p","o","r","a","t","e"," ","b","o","n","d">>, "HYG">>,
       <<<<"c","o","r","p","o","r","a","t","e"," ","b","o","n","d">>, "LQDE.L">>,
       <<<<"e","u","r","o"," ","h","i","g","h"," ","y","i","e","l","d">>, "IHYG.L">>,
       <<<<"o","r","o">>, "GLD">>,
       <<<<"g","o","l","d">>, "GLD">>,
       <<<<"a","m","u","n","d","i"," ","e","u","r","o"," ","g","o","v">>, "EGOV.PA">> >>

infer_symbol_from_name(name) ==
    LET name_lower == Lower(name)
        items == DictItems(common_etf_names)
        hits == { k \in 1..Len(items) : Contains(name_lower, items[k][1]) }
    IN  IF hits = {} THEN ""
        ELSE items[CHOOSE k \in hits : \A q \in hits : k <= q][2]

(***************************************************************************)
(* market_data.py: update_portfolio_data.                                  *)
(***************************************************************************)
\* name, pct and val (both in hundredths) of each entry
rendimenti_esatti ==
    << <<<<"A","m","u","n","d","i"," ","E","u","r","o"," ","G","o","v","e","r","n","m","e","n","t"," ","B","o","n","d"," ","7","-","1","0","Y"," ","U","C","I","T","S"," ","E","T","F"," ","A","c","c">>, -160, -9684>>,
       <<<<"i","S","h","a","r","e","s"," ","E","u","r","o"," ","G","o","v","e","r","n","m","e","n","t"," ","B","o","n","d"," ","1","-","3","y","r"," ","U","C","I","T","S"," ","E","T","F"," ","(","A","c","c",")">>, 97, 29090>>,
       <<<<"X","t","r","a","c","k","e","r","s"," ","E","U","R"," ","H","i","g","h"," ","Y","i","e","l","d"," ","C","o","r","p","o","r","a","t","e"," ","B","o","n","d"," ","U","C","I","T","S"," ","E","T","F"," ","1","C">>, 68, 10281>>,
       <<<<"i","S","h","a","r","e","s"," ","C","o","r","e"," ","M","S","C","I"," ","E","m","e","r","g","i","n","g"," ","M","a","r","k","e","t","s"," ","I","M","I"," ","U","C","I","T","S"," ","E","T","F"," ","(","A","c","c",")">>, -244, -8540>>,
       <<<<"X","t","r","a","c","k","e","r","s"," ","S","T","O","X","X"," ","E","u","r","o","p","e"," ","6","0","0"," ","U","C","I","T","S"," ","E","T","F"," ","1","C">>, 11, 210>>,
       <<<<"i","S","h","a","r","e","s"," ","C","o","r","e"," ","S","&","P"," ","5","0","0"," ","U","C","I","T","S"," ","E","T","F"," ","U","S","D"," ","(","A","c","c",")">>, -887, -244631>>,
       <<<<"i","S","h","a","r","e","s"," ","M","S","C","I"," ","W","o","r","l","d"," ","S","m","a","l","l"," ","C","a","p"," ","U","C","I","T","S"," ","E","T","F">>, 15, 305>>,
       <<<<"i","S","h","a","r","e","s"," ","C","o","r","e"," ","M","S","C","I"," ","W","o","r","l","d"," ","U","C","I","T","S"," ","E","T","F"," ","U","S","D"," ","(","A","c","c",")">>, 608, 167657>>,
       <<<<"X","t","r","a","c","k","e","r","s"," ","I","I"," ","E","U","R"," ","O","v","e","r","n","i","g","h","t"," ","R","a","t","e"," ","S","w","a","p"," ","U","C","I","T","S"," ","E","T","F"," ","1","C">>, 52, 15225>>,
       <<<<"I","n","v","e","s","c","o"," ","P","h","y","s","i","c","a","l"," ","G","o","l","d"," ","A">>, 1427, 86620>> >>

\* df[col] = None, when the column is not there yet
EnsureColumn(frame, col) ==
    IF col \in frame.cols THEN frame
    ELSE WithColumn(frame, col, [i \in 1..Len(frame.rows) |-> NaNCell])

\* a plausible slip: updated_df = portfolio_df, one frame under two names
CallerFrameAfterUpdate_NoCopy(original, updated) == updated

\* the caller's frame once `updated` has been written: updated_df is a copy
\* (line 229) and lines 232-351 write to updated_df only
CallerFrameAfterUpdate(original, updated) == original

\* updated_df = portfolio_df.copy() and the three columns of lines 232-239
InitialUpdated(frame) ==
    EnsureColumn(EnsureColumn(EnsureColumn(frame,
        "Prezzo Attuale"), "Rendimento %"), "Rendimento")

\* 'Nome' if present, else 'Titolo' if present, else None ("")
nome_col(frame) ==
    IF "Nome" \in frame.cols THEN "Nome"
    ELSE IF "Titolo" \in frame.cols THEN "Titolo"
    ELSE ""

\* updated_df.at[i, col] = cell; a new column is missing in the other rows
SetAt(frame, i, col, cell) ==
    [cols |-> frame.cols \cup {col},
     rows |-> [j \in 1..Len(frame.rows) |->
                 [c \in frame.cols \cup {col} |->
                     IF c = col
                     THEN IF j = i THEN cell
                          ELSE IF col \in frame.cols THEN frame.rows[j][col]
                          ELSE NaNCell
                     ELSE frame.rows[j][c]]]]

\* 'col' in row and pd.notna(row[col])
Present(row, col) == col \in DOMAIN row /\ NotNa(row[col])

HasName(frame, row) == nome_col(frame) # "" /\ NotNa(row[nome_col(frame)])

\* nome_titolo in rendimenti_esatti
ExactEntries(frame, row) ==
    IF HasName(frame, row) /\ row[nome_col(frame)].t = "text"
    THEN { k \in 1..Len(rendimenti_esatti) :
             rendimenti_esatti[k][1] = row[nome_col(frame)].s }
    ELSE {}

\* lines 274-287: the holding's name is in rendimenti_esatti
ApplyExact(updated, row, i, k) ==
    LET u1 == SetAt(updated, i, "Rendimento %", Num(Rat(rendimenti_esatti[k][2], 100)))
        u2 == SetAt(u1, i, "Rendimento", Num(Rat(rendimenti_esatti[k][3], 100)))
    IN  IF Present(row, "Controvalore")
        THEN SetAt(u2, i, "Valore Attuale",
                 Num(RatAdd(Val(row["Controvalore"]), Rat(rendimenti_esatti[k][3], 100))))
        ELSE u2

\* lines 291-298: the ISIN table first, then the name
ResolveSymbol(frame, row) ==
    LET by_isin == IF "Isin" \in frame.cols /\ NotNa(row["Isin"])
                   THEN get_symbol_from_isin(row["Isin"]) ELSE ""
    IN  IF by_isin # "" THEN by_isin
        ELSE IF HasName(frame, row)
             THEN infer_symbol_from_name(Str(row[nome_col(frame)]))
             ELSE ""

\* the division of line 324 is between Python scalars and raises on a
\* zero quantity
RaisesAfterPrice(row) ==
    /\ ~(Present(row, "avg_price") /\ RatLt(FromInt(0), Val(row["avg_price"])))
    /\ Present(row, "Controvalore") /\ Present(row, "total_quantity")
    /\ Val(row["total_quantity"]) = FromInt(0)

\* lines 311-330: the return of a holding with a price
ApplyReturn(updated, row, i, price) ==
    IF Present(row, "avg_price") /\ RatLt(FromInt(0), Val(row["avg_price"]))
    THEN LET purchase_price == Val(row["avg_price"])
             pct == RatMul(RatDiv(RatSub(price, purchase_price), purchase_price),
                           FromInt(100))
             u1 == SetAt(updated, i, "Rendimento %", Num(pct))
         IN  IF Present(row, "total_quantity")
             THEN SetAt(u1, i, "Rendimento",
                      Num(RatMul(RatSub(price, purchase_price),
                                 Val(row["total_quantity"]))))
             ELSE u1
    ELSE IF Present(row, "Controvalore") /\ Present(row, "total_quantity")
    THEN LET avg_price == RatDiv(Val(row["Controvalore"]), Val(row["total_quantity"]))
             pct == RatMul(RatDiv(RatSub(price, avg_price), avg_price), FromInt(100))
             u1 == SetAt(updated, i, "Rendimento %", Num(pct))
         IN  SetAt(u1, i, "Rendimento",
                 Num(RatMul(RatSub(price, avg_price), Val(row["total_quantity"]))))
    ELSE updated

\* lines 306-337 for a non-empty price history; an exception leaves what
\* was already written
ApplyPrice(updated, row, i, price) ==
    LET u1 == SetAt(updated, i, "Prezzo Attuale", Num(price)) IN
    IF RaisesAfterPrice(row) THEN u1
    ELSE LET u2 == ApplyReturn(u1, row, i, price) IN
         IF Present(row, "total_quantity")
         THEN SetAt(u2, i, "Valore Attuale",
                  Num(RatMul(price, Val(row["total_quantity"]))))
         ELSE u2

\* lines 346-351: the fallback to the cost value
FillValoreAttuale(frame) ==
    IF "Valore Attuale" \in frame.cols
    THEN [cols |-> frame.cols,
          rows |-> [i \in 1..Len(frame.rows) |->
             [frame.rows[i] EXCEPT !["Valore Attuale"] =
                 IF NotNa(@) THEN @
                 ELSE IF "Controvalore" \in frame.cols
                      THEN frame.rows[i]["Controvalore"] ELSE NaNCell]]]
    ELSE frame

(***************************************************************************)
(* market_dashboard.py: display_portfolio_market_data, the summary.        *)
(***************************************************************************)
\* line 79: 'Prezzo Attuale' in updated_df.columns and some cell of it is
\* not missing
market_data_available(updated) ==
    /\ "Prezzo Attuale" \in updated.cols
    /\ \E i \in 1..Len(updated.rows) : NotNa(updated.rows[i]["Prezzo Attuale"])

\* lines 98-100, in hundredths
exact_values ==
    [total_value |-> Rat(14972617, 100),
     return_value |-> Rat(45971, 100),
     return_percentage |-> Rat(106, 100)]

\* lines 82-107: the numbers st.metric is given.  Lines 89-95 compute the
\* totals of the frame and line 103 does not use them.
SummaryMetric(updated) ==
    IF /\ market_data_available(updated)
       /\ "Valore Attuale" \in updated.cols
       /\ "Controvalore" \in updated.cols
    THEN [shown |-> TRUE,
          value |-> exact_values.total_value,
          return_value |-> exact_values.return_value,
          return_percentage |-> exact_values.return_percentage]
    ELSE [shown |-> FALSE, value |-> FromInt(0), return_value |-> FromInt(0),
          return_percentage |-> FromInt(0)]
\* the texts the inputs are made of
Sample ==
    [ CatAzionario |-> <<"A","z","i","o","n","a","r","i","o">>,
      CatObbligazioni |-> <<"O","b","b","l","i","g","a","z","i","o","n","i">>,
      CatETF |-> <<"E","T","F">>,
      Crypto |-> <<"C","r","y","p","t","o">>,
      NameFondo |-> <<"F","o","n","d","o"," ","A","l","f","a">>,
      NameWorld |-> <<"i","S","h","a","r","e","s"," ","C","o","r","e"," ","M","S","C","I"," ","W","o","r","l","d">>,
      NameGold |-> <<"I","n","v","e","s","c","o"," ","P","h","y","s","i","c","a","l"," ","G","o","l","d"," ","A">>,
      IsinWorld |-> <<"I","E","0","0","B","4","L","5","Y","9","8","3">>,
      IsinOther |-> <<"X","X","0","0","0","0","0","0","0","0","0","0">>,
      Acquisto |-> <<"A","c","q","u","i","s","t","o">>,
      Vendita |-> <<"V","e","n","d","i","t","a">>,
      NotANumber |-> <<"n",".","d",".">>,
      WideNames |->
         << <<"i","S","h","a","r","e","s"," ","C","o","r","e"," ","M","S","C","I"," ","W","o","r","l","d">>,
            <<"A","m","u","n","d","i"," ","E","u","r","o"," ","G","o","v"," ","B","o","n","d">>,
            <<"I","n","v","e","s","c","o"," ","P","h","y","s","i","c","a","l"," ","G","o","l","d"," ","A">>,
            <<"F","o","n","d","o"," ","A","l","f","a">>,
            <<"V","a","n","g","u","a","r","d"," ","F","T","S","E">>,
            <<"X","t","r","a","c","k","e","r","s"," ","M","S","C","I"," ","E","M">>,
            <<"T","r","e","a","s","u","r","y"," ","B","o","n","d"," ","7">>,
            <<"L","i","q","u","i","d"," ","C","a","s","h">> >> ]

(***************************************************************************)
(* Inputs of the classifier: every concatenation of at most MaxFrags       *)
(* fragments; the fragments are the keywords of the rule table, some       *)
(* upper-case spellings, filler text and the text of a missing cell.       *)
(***************************************************************************)
CategoryFragments ==
    { <<"a","z","i","o","n","i">>,
      <<"a","z","i","o","n">>,
      <<"s","t","o","c","k">>,
      <<"e","q","u","i","t","y">>,
      <<"s","h","a","r","e">>,
      <<"o","b","b","l","i","g">>,
      <<"b","o","n","d">>,
      <<"f","i","x","e","d"," ","i","n","c","o","m","e">>,
      <<"t","r","e","a","s","u","r","y">>,
      <<"m","o","n","e","t","a","r","i","o">>,
      <<"m","o","n","e","y"," ","m","a","r","k","e","t">>,
      <<"l","i","q","u","i","d","i","t","y">>,
      <<"c","a","s","h">>,
      <<"c","o","m","m","o","d","i","t">>,
      <<"m","a","t","e","r","i","e"," ","p","r","i","m","e">>,
      <<"g","o","l","d">>,
      <<"s","i","l","v","e","r">>,
      <<"o","i","l">>,
      <<"i","m","m","o","b","i","l">>,
      <<"r","e","a","l"," ","e","s","t","a","t","e">>,
      <<"r","e","i","t">>,
      <<"a","l","t","e","r","n","a","t","i","v">>,
      <<"h","e","d","g","e">>,
      <<"p","r","i","v","a","t","e"," ","e","q","u","i","t","y">>,
      <<"E","q","u","i","t","y">>,
      <<"B","O","N","D">>,
      <<"n","a","n">>,
      <<"x">> }

RECURSIVE Concats(_)
Concats(n) ==
    IF n = 0 THEN { <<>> }
    ELSE LET shorter == Concats(n - 1) IN
         shorter \cup { s \o f : s \in shorter, f \in CategoryFragments }

(***************************************************************************)
(* Security names: every concatenation of at most MaxNameFrags fragments   *)
(* (the keywords of categorize_security, some upper-case spellings, filler *)
(* and the text of a missing cell), every fragment of common_etf_names     *)
(* alone and inside a longer name, and the names of rendimenti_esatti.     *)
(***************************************************************************)
NameFragments ==
    { <<"c","r"," ","5","0","0">>,
      <<"m","s","c","i">>,
      <<"e","q","u","i","t","y">>,
      <<"w","d">>,
      <<"g","o","v">>,
      <<"b","o","n","d">>,
      <<"e","h","y","c","b">>,
      <<"g","o","l","d">>,
      <<"o","r">>,
      <<"c","o","m","m","o","d","i","t","y">>,
      <<"M","S","C","I">>,
      <<"B","o","n","d">>,
      <<"G","O","L","D">>,
      <<"n","a","n">>,
      <<"x"," ">> }

RECURSIVE NameConcats(_)
NameConcats(n) ==
    IF n = 0 THEN { <<>> }
    ELSE LET shorter == NameConcats(n - 1) IN
         shorter \cup { s \o f : s \in shorter, f \in NameFragments }

SecurityNames ==
    NameConcats(MaxNameFrags)
    \cup { before \o common_etf_names[k][1] \o after :
             k \in 1..Len(common_etf_names),
             before \in { <<>>, <<"X"," ">> },
             after \in { <<>>, <<" ","x">> } }
    \cup { rendimenti_esatti[k][1] : k \in 1..Len(rendimenti_esatti) }
    \cup { Sample.WideNames[k] : k \in 1..Len(Sample.WideNames) }

(***************************************************************************)
(* Holdings tables: the seven required columns, optionally with an         *)
(* asset_class column; portfolio_analyzer.py is also handed tables without *)
(* the category column or without the value column.                        *)
(***************************************************************************)
\* the asset_class cell a table that has the column gives beside a category
SuppliedAssetClass(cat) ==
    IF cat = Text(Sample.CatAzionario) THEN Text(ClassLabel.Stocks)
    ELSE IF cat = Text(Sample.CatObbligazioni) THEN Text(ClassLabel.Bonds)
    ELSE IF cat = Text(Sample.CatETF) THEN Text(Sample.Crypto)
    ELSE NaNCell

HoldingRowKinds ==
    { [c \in RequiredSet \cup {"asset_class"} |->
          CASE c = "Nome" -> Text(Sample.NameFondo)
            [] c = "Categoria" -> cat
            [] c = "TER" -> Int2Cell(0)
            [] c = "Allocazione" -> Int2Cell(40)
            [] c = "Controvalore" -> Int2Cell(v)
            [] c = "Rendimento %" -> Int2Cell(0)
            [] c = "Rendimento" -> Int2Cell(IF v = 0 THEN 0 ELSE 1)
            [] c = "asset_class" -> SuppliedAssetClass(cat)] :
      cat \in { Text(Sample.CatAzionario), Text(Sample.CatObbligazioni),
                Text(Sample.CatETF), NaNCell },
      v \in { 0, 1, 3 } }

Table(cols, rows) ==
    [cols |-> cols, rows |-> [i \in 1..Len(rows) |-> Restrict(rows[i], cols)]]

HoldingsTables ==
    { Table(cols, rows) :
        cols \in { RequiredSet,
                   RequiredSet \cup {"asset_class"},
                   RequiredSet \ {"Categoria"},
                   RequiredSet \ {"Controvalore"} },
        rows \in SeqsUpTo(HoldingRowKinds, MaxHoldings) }

(***************************************************************************)
(* Uploaded sheets, as read_excel returns them.                            *)
(***************************************************************************)
StandardSheets ==
    { Table(cols, rows) :
        cols \in { RequiredSet,
                   RequiredSet \cup {"asset_class"},
                   RequiredSet \ {"TER"},
                   RequiredSet \ {"Categoria", "Rendimento %"},
                   {"Nome"} },
        rows \in SeqsUpTo(HoldingRowKinds, MaxHoldings) }

\* a ledger export: a title in the first cell of the sheet's first row, so
\* read_excel labels the columns with the title and Unnamed: k
RawLedgerCols ==
    { "Lista Titoli", "Unnamed: 1", "Unnamed: 2", "Unnamed: 3", "Unnamed: 4",
      "Unnamed: 5" }

\* the row with the given cells, left to right
RawRow(cells) ==
    [c \in RawLedgerCols |->
        cells[CASE c = "Lista Titoli" -> 1
                [] c = "Unnamed: 1" -> 2
                [] c = "Unnamed: 2" -> 3
                [] c = "Unnamed: 3" -> 4
                [] c = "Unnamed: 4" -> 5
                [] c = "Unnamed: 5" -> 6]]

HeaderRowCells(first) ==
    RawRow(<< Text(first), Text(<<"T","i","t","o","l","o">>), Text(<<"I","s","i","n">>), Text(<<"Q","u","a","n","t","i","t","a">>), Text(<<"P","r","e","z","z","o">>), Text(<<"C","o","n","t","r","o","v","a","l","o","r","e">>) >>)

DataRow(op, name, isin, qty, price, value) ==
    RawRow(<< Text(op), Text(name), isin, Int2Cell(qty), Int2Cell(price),
              Int2Cell(value) >>)

LedgerRowKinds ==
    { HeaderRowCells(Sentinel),
      HeaderRowCells(<<"T","i","p","o"," ","O","p","e","r","a","z","i","o","n","e">>),
      RawRow(<< Text(<<"R","i","e","p","i","l","o","g","o"," ","O","p","e","r","a","z","i","o","n","e">>), NaNCell, NaNCell, NaNCell, NaNCell, NaNCell >>),
      RawRow(<< Text(<<"o","p","e","r","a","z","i","o","n","e">>), NaNCell, NaNCell, NaNCell, NaNCell, NaNCell >>),
      RawRow(<< NaNCell, NaNCell, NaNCell, NaNCell, NaNCell, NaNCell >>),
      DataRow(Sample.Acquisto, Sample.NameWorld, Text(Sample.IsinWorld), 10, 100, 1000),
      DataRow(Sample.Acquisto, Sample.NameWorld, Text(Sample.IsinWorld), 5, 110, 550),
      DataRow(Sample.Acquisto, Sample.NameFondo, Text(Sample.IsinOther), 2, 50, 100),
      DataRow(Sample.Acquisto, Sample.NameFondo, NaNCell, 1, 50, 50),
      DataRow(Sample.Vendita, Sample.NameWorld, Text(Sample.IsinWorld), -5, 110, -550),
      RawRow(<< Text(Sample.Acquisto), Text(Sample.NameFondo), Text(Sample.IsinOther), Int2Cell(2), Text(Sample.NotANumber), Int2Cell(100) >>) }

LedgerSheets ==
    { [cols |-> RawLedgerCols, rows |-> rows] :
        rows \in SeqsUpTo(LedgerRowKinds, MaxRows) }

WideSheets ==
    { [cols |-> RawLedgerCols,
       rows |-> <<HeaderRowCells(Sentinel)>> \o
                [j \in 1..Len(vals) |->
                    DataRow(Sample.Acquisto, Sample.WideNames[j], Text(Sample.IsinOther), 1,
                            vals[j], vals[j])]] :
        vals \in SeqsUpTo({ 1, 2 }, MaxSecurities) }

\* a ledger whose header is the first row of the sheet: read_excel makes
\* its cells the column labels, and the rows are the transactions
HeaderFirstSheets ==
    { RelocateHeaderFrame(
          [cols |-> RawLedgerCols,
           rows |-> <<HeaderRowCells(Sentinel)>> \o rows], 0) :
        rows \in SeqsUpTo(
            { DataRow(Sample.Acquisto, Sample.NameWorld, Text(Sample.IsinWorld), 10, 100, 1000),
              DataRow(Sample.Acquisto, Sample.NameFondo, Text(Sample.IsinOther), 2, 50, 100) },
            MaxHoldings) }

UploadedSheets ==
    StandardSheets \cup LedgerSheets \cup WideSheets \cup HeaderFirstSheets

(***************************************************************************)
(* Holdings handed to update_portfolio_data.                               *)
(***************************************************************************)
ReconcileRow(name, isin, qty, avg, cost) ==
    [c \in HoldingColumns |->
        CASE c = "Nome" -> Text(name)
          [] c = "Isin" -> Text(isin)
          [] c = "total_quantity" -> Int2Cell(qty)
          [] c = "avg_price" -> Int2Cell(avg)
          [] c = "Controvalore" -> Int2Cell(cost)
          [] c = "Categoria" -> Text(categorize_security(name))
          [] c = "Allocazione" -> Int2Cell(0)
          [] c = "TER" -> Num(estimate_ter(categorize_security(name)))
          [] c = "Rendimento %" -> Int2Cell(0)
          [] c = "Rendimento" -> Int2Cell(0)]

ReconcileRowKinds ==
    { ReconcileRow(Sample.NameFondo, Sample.IsinWorld, 10, 100, 1000),
      ReconcileRow(Sample.NameFondo, Sample.IsinOther, 10, 100, 1000),
      ReconcileRow(Sample.NameWorld, Sample.IsinOther, 15, 105, 1550),
      ReconcileRow(Sample.NameGold, Sample.IsinWorld, 10, 100, 1000),
      ReconcileRow(Sample.NameFondo, Sample.IsinWorld, 10, 0, 1000),
      ReconcileRow(Sample.NameFondo, Sample.IsinWorld, 0, 0, 0),
      ReconcileRow(Sample.NameFondo, Sample.IsinWorld, 0, 110, 0),
      ReconcileRow(Sample.WideNames[5], Sample.IsinWorld, 10, 100, 1000) }

ReconcileInputs ==
    { Table(cols, rows) :
        cols \in { HoldingColumns,
                   HoldingColumns \ {"avg_price"},
                   HoldingColumns \ {"total_quantity"},
                   HoldingColumns \ {"Isin", "avg_price", "total_quantity"},
                   HoldingColumns \ {"Rendimento %", "Rendimento"} },
        rows \in SeqsUpTo(ReconcileRowKinds, MaxReconciled) }

\* what the price service can answer: ticker.history raises, returns an
\* empty frame, or returns a closing price
Answers ==
    { [kind |-> "raise", price |-> FromInt(0)],
      [kind |-> "empty", price |-> FromInt(0)] }
    \cup { [kind |-> "price", price |-> FromInt(p)] : p \in { 120 } }

NotAsked == [kind |-> "none", price |-> FromInt(0)]
(***************************************************************************)
(* Initial values of what an operation has not touched yet.                *)
(***************************************************************************)
\* st.metric has not been called
NoMetric ==
    [shown |-> FALSE, value |-> FromInt(0), return_value |-> FromInt(0),
     return_percentage |-> FromInt(0)]

NoPortfolioData ==
    [data |-> NoFrame, total_value |-> FromInt(0),
     total_return_value |-> FromInt(0),
     total_return_percentage |-> FromInt(0)]

ClassifyIdle == cat_in = <<>> /\ cat_out = <<>>

NamesIdle == nome_titolo = <<>> /\ ledger_category = <<>> /\ inferred = ""

UploadIdle ==
    /\ raw_df = NoFrame
    /\ header_row = -1
    /\ is_transaction_list = FALSE
    /\ securities = NoFrame
    /\ total_portfolio_value = FromInt(0)
    /\ missing_columns = <<>>
    /\ shown = ""

HoldingsIdle ==
    /\ df = NoFrame
    /\ portfolio_data = NoPortfolioData
    /\ asset_allocation = NoFrame
    /\ second_allocation = NoFrame

ReconcileIdle ==
    /\ portfolio_df = NoFrame
    /\ updated_df = NoFrame
    /\ idx = 0
    /\ symbols = <<>>
    /\ feed = <<>>
    /\ metric = NoMetric

\* the build does not matter to an operation that sorts nothing
NoSort == quicksort_ties = "input order"

(***************************************************************************)
(* The two functions on security names, applied to one name.               *)
(***************************************************************************)
InitNames ==
    /\ pc = "name"
    /\ nome_titolo \in SecurityNames
    /\ ledger_category = <<>>
    /\ inferred = ""
    /\ NoSort /\ ClassifyIdle /\ UploadIdle /\ HoldingsIdle /\ ReconcileIdle

\* app2.py lines 68-77
CategorizeSecurity ==
    /\ pc = "name"
    /\ ledger_category' = categorize_security(nome_titolo)
    /\ pc' = "categorized"
    /\ UNCHANGED <<quicksort_ties, nome_titolo, inferred, classifyVars,
                   uploadVars, holdingsVars, reconcileVars>>

\* market_data.py lines 57-112
InferSymbol ==
    /\ pc = "name"
    /\ inferred' = infer_symbol_from_name(nome_titolo)
    /\ pc' = "inferred"
    /\ UNCHANGED <<quicksort_ties, nome_titolo, ledger_category, classifyVars,
                   uploadVars, holdingsVars, reconcileVars>>

NextNames ==
    \/ CategorizeSecurity
    \/ InferSymbol

SpecNames == InitNames /\ [][NextNames]_vars

(***************************************************************************)
(* The classifier applied to one input.                                    *)
(***************************************************************************)
InitClassify ==
    /\ pc = "classify"
    /\ cat_in \in Concats(MaxFrags)
    /\ cat_out = <<>>
    /\ NoSort /\ NamesIdle /\ UploadIdle /\ HoldingsIdle /\ ReconcileIdle

Classify ==
    /\ pc = "classify"
    /\ cat_out' = map_category_to_asset_class(cat_in)
    /\ pc' = "classified"
    /\ UNCHANGED <<quicksort_ties, cat_in, namesVars, uploadVars,
                   holdingsVars, reconcileVars>>

NextClassify == Classify

SpecClassify == InitClassify /\ [][NextClassify]_vars

(***************************************************************************)
(* portfolio_analyzer.py on a holdings table: process_portfolio_data(df),  *)
(* then calculate_asset_allocation(df), as app2.py calls them.             *)
(***************************************************************************)
InitHoldings ==
    /\ pc = "process"
    /\ quicksort_ties \in TieOrders
    /\ df \in HoldingsTables
    /\ portfolio_data = NoPortfolioData
    /\ asset_allocation = NoFrame
    /\ second_allocation = NoFrame
    /\ ClassifyIdle /\ NamesIdle /\ UploadIdle /\ ReconcileIdle

ProcessPortfolioData ==
    /\ pc = "process"
    /\ portfolio_data' = process_portfolio_data(df)
    /\ df' = CallerFrameAfter(df)
    /\ pc' = "processed"
    /\ UNCHANGED <<quicksort_ties, asset_allocation, second_allocation,
                   classifyVars, namesVars, uploadVars, reconcileVars>>

CalculateAssetAllocation ==
    /\ pc = "processed"
    /\ asset_allocation' = calculate_asset_allocation(df)
    /\ df' = CallerFrameAfter(df)
    /\ pc' = "allocated"
    /\ UNCHANGED <<quicksort_ties, portfolio_data, second_allocation,
                   classifyVars, namesVars, uploadVars, reconcileVars>>

\* calculate_asset_allocation(df) once more, on the frame the first call
\* left
CalculateAssetAllocationAgain ==
    /\ pc = "allocated"
    /\ second_allocation' = calculate_asset_allocation(df)
    /\ df' = CallerFrameAfter(df)
    /\ pc' = "allocated twice"
    /\ UNCHANGED <<quicksort_ties, portfolio_data, asset_allocation,
                   classifyVars, namesVars, uploadVars, reconcileVars>>

NextHoldings ==
    \/ ProcessPortfolioData
    \/ CalculateAssetAllocation
    \/ CalculateAssetAllocationAgain

SpecHoldings == InitHoldings /\ [][NextHoldings]_vars

(***************************************************************************)
(* app2.py: one uploaded sheet through the upload handler.                 *)
(***************************************************************************)
InitUpload ==
    /\ pc = "uploaded"
    /\ quicksort_ties \in TieOrders
    /\ raw_df \in UploadedSheets
    /\ header_row = -1
    /\ is_transaction_list = FALSE
    /\ securities = NoFrame
    /\ total_portfolio_value = FromInt(0)
    /\ missing_columns = <<>>
    /\ shown = ""
    /\ ClassifyIdle /\ NamesIdle /\ HoldingsIdle /\ ReconcileIdle

\* lines 33-41
DetectFormat ==
    /\ pc = "uploaded"
    /\ header_row' = DetectHeaderRow(raw_df)
    /\ is_transaction_list' = (DetectHeaderRow(raw_df) # -1)
    /\ pc' = IF DetectHeaderRow(raw_df) # -1 THEN "ledger" ELSE "standard"
    /\ UNCHANGED <<quicksort_ties, raw_df, securities, total_portfolio_value,
                   missing_columns, shown, classifyVars, namesVars,
                   holdingsVars, reconcileVars>>

\* lines 47-52
RelocateHeader ==
    /\ pc = "ledger"
    /\ df' = RelocateHeaderFrame(raw_df, header_row)
    /\ pc' = "aggregate"
    /\ UNCHANGED <<quicksort_ties, portfolio_data, asset_allocation,
                   second_allocation, classifyVars, namesVars, uploadVars,
                   reconcileVars>>

\* lines 55-65
Aggregate ==
    /\ pc = "aggregate"
    /\ ~AggregationRaises(df)
    /\ securities' = AggregateSecurities(df)
    /\ total_portfolio_value' = SumColumn(AggregateSecurities(df), "total_value")
    /\ pc' = "categorize"
    /\ UNCHANGED <<quicksort_ties, raw_df, header_row, is_transaction_list,
                   missing_columns, shown, classifyVars, namesVars,
                   holdingsVars, reconcileVars>>

\* lines 55-59 raise, and the exception goes where the handler sends it
AggregateRaises ==
    /\ pc = "aggregate"
    /\ AggregationRaises(df)
    /\ shown' = ExceptionShown(55)
    /\ pc' = "done"
    /\ UNCHANGED <<quicksort_ties, raw_df, header_row, is_transaction_list,
                   securities, total_portfolio_value, missing_columns,
                   classifyVars, namesVars, holdingsVars, reconcileVars>>

\* lines 80-119
PrepareHoldings ==
    /\ pc = "categorize"
    /\ \E alloc \in AllocazioneChoices(securities, total_portfolio_value) :
          /\ securities' = PrepareSecurities(securities, alloc)
          /\ df' = PrepareSecurities(securities, alloc)
          /\ portfolio_data' =
                [data |-> PrepareSecurities(securities, alloc),
                 total_value |-> total_portfolio_value,
                 total_return_value |-> FromInt(0),
                 total_return_percentage |-> FromInt(0)]
    /\ pc' = "allocate"
    /\ UNCHANGED <<quicksort_ties, raw_df, header_row, is_transaction_list,
                   total_portfolio_value, missing_columns, shown,
                   asset_allocation, second_allocation, classifyVars,
                   namesVars, reconcileVars>>

\* securities.apply(estimate_ter, axis=1) of a frame without rows is a
\* frame, not a column; pandas versions that refuse to assign it to
\* securities['TER'] raise
PrepareHoldingsRaises ==
    /\ pc = "categorize"
    /\ securities.rows = <<>>
    /\ shown' = ExceptionShown(97)
    /\ pc' = "done"
    /\ UNCHANGED <<quicksort_ties, raw_df, header_row, is_transaction_list,
                   securities, total_portfolio_value, missing_columns,
                   classifyVars, namesVars, holdingsVars, reconcileVars>>

\* lines 121-140
AllocateLedger ==
    /\ pc = "allocate"
    /\ asset_allocation' = LedgerAssetAllocation(df)
    /\ shown' = "dashboard"
    /\ pc' = "done"
    /\ UNCHANGED <<quicksort_ties, raw_df, header_row, is_transaction_list,
                   securities, total_portfolio_value, missing_columns, df,
                   portfolio_data, second_allocation, classifyVars,
                   namesVars, reconcileVars>>

\* lines 194-199
RejectColumns ==
    /\ pc = "standard"
    /\ MissingColumns(raw_df) # <<>>
    /\ missing_columns' = MissingColumns(raw_df)
    /\ shown' = "missing columns"
    /\ pc' = "done"
    /\ UNCHANGED <<quicksort_ties, raw_df, header_row, is_transaction_list,
                   securities, total_portfolio_value, classifyVars,
                   namesVars, holdingsVars, reconcileVars>>

\* lines 194-195 and 202: df = raw_df
AcceptColumns ==
    /\ pc = "standard"
    /\ MissingColumns(raw_df) = <<>>
    /\ missing_columns' = MissingColumns(raw_df)
    /\ df' = raw_df
    /\ pc' = "process"
    /\ UNCHANGED <<quicksort_ties, raw_df, header_row, is_transaction_list,
                   securities, total_portfolio_value, shown, portfolio_data,
                   asset_allocation, second_allocation, classifyVars,
                   namesVars, reconcileVars>>

NextUpload ==
    \/ DetectFormat
    \/ RelocateHeader
    \/ Aggregate
    \/ AggregateRaises
    \/ PrepareHoldings
    \/ PrepareHoldingsRaises
    \/ AllocateLedger
    \/ RejectColumns
    \/ AcceptColumns
    \/ ProcessPortfolioData
    \/ CalculateAssetAllocation

SpecUpload == InitUpload /\ [][NextUpload]_vars

(***************************************************************************)
(* market_data.py: update_portfolio_data on one holdings frame.            *)
(***************************************************************************)
InitReconcile ==
    /\ pc = "reconcile"
    /\ portfolio_df \in ReconcileInputs
    /\ updated_df = NoFrame
    /\ idx = 0
    /\ symbols = <<>>
    /\ feed = <<>>
    /\ metric = NoMetric
    /\ NoSort /\ ClassifyIdle /\ NamesIdle /\ UploadIdle /\ HoldingsIdle

\* lines 229-260
BeginUpdate ==
    /\ pc = "reconcile"
    /\ updated_df' = InitialUpdated(portfolio_df)
    /\ portfolio_df' = CallerFrameAfterUpdate(portfolio_df, updated_df')
    /\ idx' = 1
    /\ pc' = "loop"
    /\ UNCHANGED <<quicksort_ties, symbols, feed, metric, classifyVars,
                   namesVars, uploadVars, holdingsVars>>

\* the row the loop is at, as iterrows() hands it out
LoopRow == InitialUpdated(portfolio_df).rows[idx]

AtRow == pc = "loop" /\ idx <= Len(portfolio_df.rows)

NextRow(symbol, answer) ==
    /\ portfolio_df' = CallerFrameAfterUpdate(portfolio_df, updated_df')
    /\ idx' = idx + 1
    /\ symbols' = Append(symbols, symbol)
    /\ feed' = Append(feed, answer)
    /\ UNCHANGED <<pc, quicksort_ties, metric, classifyVars, namesVars,
                   uploadVars, holdingsVars>>

\* lines 270-287: the name is in rendimenti_esatti
ReconcileExact ==
    /\ AtRow
    /\ ExactEntries(updated_df, LoopRow) # {}
    /\ updated_df' = ApplyExact(updated_df, LoopRow, idx,
                        CHOOSE k \in ExactEntries(updated_df, LoopRow) : TRUE)
    /\ NextRow("", NotAsked)

\* lines 291-301: no symbol, nothing is looked up
ReconcileUnresolved ==
    /\ AtRow
    /\ ExactEntries(updated_df, LoopRow) = {}
    /\ ResolveSymbol(updated_df, LoopRow) = ""
    /\ UNCHANGED updated_df
    /\ NextRow("", NotAsked)

\* lines 302-341: the lookup raises or returns nothing
ReconcileLookupFails ==
    /\ AtRow
    /\ ExactEntries(updated_df, LoopRow) = {}
    /\ ResolveSymbol(updated_df, LoopRow) # ""
    /\ \E answer \in Answers :
          /\ answer.kind # "price"
          /\ UNCHANGED updated_df
          /\ NextRow(ResolveSymbol(updated_df, LoopRow), answer)

\* lines 302-341: the lookup returns a price
ReconcilePrice ==
    /\ AtRow
    /\ ExactEntries(updated_df, LoopRow) = {}
    /\ ResolveSymbol(updated_df, LoopRow) # ""
    /\ \E answer \in Answers :
          /\ answer.kind = "price"
          /\ updated_df' = ApplyPrice(updated_df, LoopRow, idx, answer.price)
          /\ NextRow(ResolveSymbol(updated_df, LoopRow), answer)

\* lines 343-368
FinishUpdate ==
    /\ pc = "loop"
    /\ idx > Len(portfolio_df.rows)
    /\ updated_df' = FillValoreAttuale(updated_df)
    /\ portfolio_df' = CallerFrameAfterUpdate(portfolio_df, updated_df')
    /\ pc' = "returned"
    /\ UNCHANGED <<quicksort_ties, idx, symbols, feed, metric, classifyVars,
                   namesVars, uploadVars, holdingsVars>>

\* market_dashboard.py lines 78-107, on what update_portfolio_data returned
DisplaySummary ==
    /\ pc = "returned"
    /\ metric' = SummaryMetric(updated_df)
    /\ pc' = "displayed"
    /\ UNCHANGED <<quicksort_ties, portfolio_df, updated_df, idx, symbols,
                   feed, classifyVars, namesVars, uploadVars, holdingsVars>>

NextReconcile ==
    \/ BeginUpdate
    \/ ReconcileExact
    \/ ReconcileUnresolved
    \/ ReconcileLookupFails
    \/ ReconcilePrice
    \/ FinishUpdate
    \/ DisplaySummary

SpecReconcile == InitReconcile /\ [][NextReconcile]_vars
(***************************************************************************)
(* C3.  The rule table as the specification states it: an ordered list of  *)
(* (keyword set, asset class); the classifier returns the class of the     *)
(* first rule one of whose keywords occurs in the lower-cased input, and   *)
(* Other when none does.                                                   *)
(***************************************************************************)
SpecRuleTable ==
    << [cls |-> ClassLabel.Stocks,
        kw  |-> { <<"a","z","i","o","n","i">>,
                  <<"a","z","i","o","n">>,
                  <<"s","t","o","c","k">>,
                  <<"e","q","u","i","t","y">>,
                  <<"s","h","a","r","e">> }],
       [cls |-> ClassLabel.Bonds,
        kw  |-> { <<"o","b","b","l","i","g">>,
                  <<"b","o","n","d">>,
                  <<"f","i","x","e","d"," ","i","n","c","o","m","e">>,
                  <<"t","r","e","a","s","u","r","y">> }],
       [cls |-> ClassLabel.MoneyMarket,
        kw  |-> { <<"m","o","n","e","t","a","r","i","o">>,
                  <<"m","o","n","e","y"," ","m","a","r","k","e","t">>,
                  <<"l","i","q","u","i","d","i","t","y">>,
                  <<"c","a","s","h">> }],
       [cls |-> ClassLabel.Commodities,
        kw  |-> { <<"c","o","m","m","o","d","i","t">>,
                  <<"m","a","t","e","r","i","e"," ","p","r","i","m","e">>,
                  <<"g","o","l","d">>,
                  <<"s","i","l","v","e","r">>,
                  <<"o","i","l">> }],
       [cls |-> ClassLabel.RealEstate,
        kw  |-> { <<"i","m","m","o","b","i","l">>,
                  <<"r","e","a","l"," ","e","s","t","a","t","e">>,
                  <<"r","e","i","t">> }],
       [cls |-> ClassLabel.Alternatives,
        kw  |-> { <<"a","l","t","e","r","n","a","t","i","v">>,
                  <<"h","e","d","g","e">>,
                  <<"p","r","i","v","a","t","e"," ","e","q","u","i","t","y">> }] >>

CanonicalAssetClasses ==
    { ClassLabel.Stocks, ClassLabel.Bonds, ClassLabel.MoneyMarket,
      ClassLabel.Commodities, ClassLabel.RealEstate, ClassLabel.Alternatives,
      ClassLabel.Other }

RuleMatches(r, text) ==
    \E k \in SpecRuleTable[r].kw : Contains(Lower(text), k)

FirstMatchClass(text) ==
    LET hits == { r \in 1..Len(SpecRuleTable) : RuleMatches(r, text) } IN
    IF hits = {} THEN ClassLabel.Other
    ELSE SpecRuleTable[CHOOSE r \in hits : \A q \in hits : r <= q].cls

\* C3: the classifier is total (it can always run, and returns a canonical
\* class) and returns the class of the first matching rule in the order
\* Stocks, Bonds, Money Market, Commodities, Real Estate, Alternatives,
\* and Other when no keyword occurs in the lower-cased input.
C3_ClassifierFirstMatch ==
    /\ pc = "classify" => ENABLED Classify
    /\ pc = "classified" =>
          /\ cat_out = FirstMatchClass(cat_in)
          /\ cat_out \in CanonicalAssetClasses

\* C3 witness: an upper-case keyword of a later rule precedes a keyword of
\* the first rule in the input, and the first rule's class is returned.
C3_Witness ==
    /\ pc = "classified"
    /\ cat_in = <<"B","O","N","D">> \o <<"s","h","a","r","e">>
    /\ cat_out = ClassLabel.Stocks

(***************************************************************************)
(* C1.                                                                     *)
(***************************************************************************)
RowsOfClass(c) ==
    { j \in 1..Len(asset_allocation.rows) :
        asset_allocation.rows[j]["asset_class"] = Text(c) }

\* C1 (as claimed): the asset-allocation output has exactly one row for each
\* of the seven canonical asset classes, whatever the holdings are.
C1_OneRowPerCanonicalClass ==
    pc = "allocated" =>
        \A c \in CanonicalAssetClasses : Cardinality(RowsOfClass(c)) = 1

(***************************************************************************)
(* C4.                                                                     *)
(***************************************************************************)
CanonicalCells == { Text(c) : c \in CanonicalAssetClasses }

\* C4 (as claimed): after ingestion every holding's asset_class is a member
\* of the canonical set, also without a category column and also when the
\* table supplies its own asset_class column.
C4_AssetClassCanonical ==
    pc \in {"processed", "allocated"} =>
        \A i \in 1..Len(portfolio_data.data.rows) :
            portfolio_data.data.rows[i]["asset_class"] \in CanonicalCells

\* C4 (amended): a holding's asset_class is the table's own asset_class cell,
\* unchanged and unchecked, when the table has that column; otherwise it is
\* a member of the canonical set when the table has a category column, and
\* 'Unknown' when it has none.
C4_AssetClassBySource ==
    pc \in {"processed", "allocated"} =>
        /\ Len(portfolio_data.data.rows) = Len(df.rows)
        /\ \A i \in 1..Len(df.rows) :
              LET ac == portfolio_data.data.rows[i]["asset_class"] IN
              IF "asset_class" \in df.cols THEN ac = df.rows[i]["asset_class"]
              ELSE IF "Categoria" \in df.cols THEN ac \in CanonicalCells
              ELSE ac = Text(ClassLabel.Unknown)

\* C4 witness: a processed table without a category column (its holding is
\* 'Unknown'), or one whose own asset_class cell is outside the canonical set
C4_Witness ==
    /\ pc = "processed"
    /\ Len(df.rows) > 0
    /\ \/ "Categoria" \notin df.cols
       \/ /\ "asset_class" \in df.cols
          /\ df.rows[1]["asset_class"] = Text(Sample.Crypto)
    /\ portfolio_data.data.rows[1]["asset_class"] \notin CanonicalCells

(***************************************************************************)
(* C6.                                                                     *)
(***************************************************************************)
SentinelRows == { i \in 1..Len(raw_df.rows) : RowHasSentinel(raw_df.rows[i]) }

\* the rows after the header that are not entirely empty
BodyRows == { j \in (header_row + 2)..Len(raw_df.rows) : ~AllNa(raw_df.rows[j]) }

\* the cells of the header row whose text no other header cell has
UniqueHeaderCells ==
    { c \in raw_df.cols :
        \A d \in raw_df.cols :
            LabelOf(raw_df.rows[header_row + 1][d]) =
            LabelOf(raw_df.rows[header_row + 1][c]) => d = c }

\* C6: when a row of the raw table contains the sentinel, the table is
\* taken as a transaction ledger, header_row is the 0-based index of the
\* first such row, that row's cells become the column labels, and the
\* ledger body is, in order, exactly the later rows that are not entirely
\* empty.
C6_HeaderAtFirstSentinelRow ==
    /\ (pc # "uploaded" /\ SentinelRows # {}) =>
          /\ is_transaction_list
          /\ header_row + 1 \in SentinelRows
          /\ \A i \in SentinelRows : header_row + 1 <= i
    /\ pc = "aggregate" =>
          /\ df.cols = { LabelOf(raw_df.rows[header_row + 1][c]) : c \in raw_df.cols }
          /\ Len(df.rows) = Cardinality(BodyRows)
          /\ \A j \in BodyRows : \A c \in UniqueHeaderCells :
                df.rows[Cardinality({ q \in BodyRows : q <= j })]
                       [LabelOf(raw_df.rows[header_row + 1][c])]
                    = raw_df.rows[j][c]

\* C6 witness: the second row of the sheet holds the cell Operazione, a
\* data row precedes it and a data row follows it
C6_Witness ==
    /\ pc = "aggregate"
    /\ header_row = 1
    /\ raw_df.rows[2]["Lista Titoli"] = Text(Sentinel)
    /\ ~RowHasSentinel(raw_df.rows[1])
    /\ Len(df.rows) = 1
    /\ df.rows[1]["Titolo"] = Text(Sample.NameWorld)

(***************************************************************************)
(* C7.                                                                     *)
(***************************************************************************)
MissingRequired == RequiredSet \ raw_df.cols

\* C7: a sheet without the sentinel is processed as a holdings table if and
\* only if its header has all seven required columns; otherwise the upload
\* ends with the message that lists exactly the required columns that are
\* missing, and no holdings, totals or allocation are computed.
C7_HoldingsTableIffAllRequired ==
    (pc \notin {"uploaded", "standard"} /\ ~is_transaction_list) =>
        /\ pc \in {"process", "processed", "allocated"} <=> MissingRequired = {}
        /\ MissingRequired # {} =>
              /\ pc = "done"
              /\ shown = "missing columns"
              /\ { missing_columns[k] : k \in 1..Len(missing_columns) } = MissingRequired
              /\ Len(missing_columns) = Cardinality(MissingRequired)
              /\ HoldingsIdle
              /\ securities = NoFrame
              /\ total_portfolio_value = FromInt(0)

\* C7 witness: a sheet with rows is rejected for its two missing columns
C7_Witness ==
    /\ pc = "done"
    /\ shown = "missing columns"
    /\ missing_columns = << "Categoria", "Rendimento %" >>
    /\ Len(raw_df.rows) > 0

(***************************************************************************)
(* C5.                                                                     *)
(***************************************************************************)
\* the (name, identifier code) pairs of the ledger body
BodyPairs == { <<df.rows[i]["Titolo"], df.rows[i]["Isin"]>> : i \in 1..Len(df.rows) }

PairValues(p, col) ==
    LET members == SelectSeq(df.rows,
                       LAMBDA r : r["Titolo"] = p[1] /\ r["Isin"] = p[2])
    IN  [i \in 1..Len(members) |-> Val(members[i][col])]

\* C5 (as claimed): the aggregator outputs exactly one holding for each
\* distinct (name, identifier code) pair of the ledger body, with the sum of
\* the group's quantities, the unweighted mean of its unit prices and the
\* sum of its line values.
C5_OneHoldingPerPair ==
    pc = "categorize" =>
        /\ Len(securities.rows) = Cardinality(BodyPairs)
        /\ \A p \in BodyPairs :
              \E j \in 1..Len(securities.rows) :
                 /\ securities.rows[j]["Titolo"] = p[1]
                 /\ securities.rows[j]["Isin"] = p[2]
                 /\ Val(securities.rows[j]["total_quantity"])
                       = RatSumSkipNa(PairValues(p, "Quantita"))
                 /\ Val(securities.rows[j]["avg_price"])
                       = RatDiv(RatSumSkipNa(PairValues(p, "Prezzo")),
                                FromInt(Len(PairValues(p, "Prezzo"))))
                 /\ Val(securities.rows[j]["total_value"])
                       = RatSumSkipNa(PairValues(p, "Controvalore"))

(***************************************************************************)
(* C2.                                                                     *)
(***************************************************************************)
\* whether x is within tol of 100
Near100(x, tol) == ~RatLt(tol, RatAbs(RatSub(x, FromInt(100))))

LedgerHoldingsReady == pc = "allocate" \/ (pc = "done" /\ shown = "dashboard")

ReconcileOne(frame0, updated, i, answer) ==
    IF ExactEntries(frame0, frame0.rows[i]) # {}
    THEN ApplyExact(updated, frame0.rows[i], i,
             CHOOSE k \in ExactEntries(frame0, frame0.rows[i]) : TRUE)
    ELSE IF ResolveSymbol(frame0, frame0.rows[i]) = "" THEN updated
    ELSE IF answer.kind = "price"
    THEN ApplyPrice(updated, frame0.rows[i], i, answer.price)
    ELSE updated

RECURSIVE ReconcileFrom(_, _, _, _)
ReconcileFrom(frame0, updated, i, answers) ==
    IF i > Len(frame0.rows) THEN updated
    ELSE ReconcileFrom(frame0, ReconcileOne(frame0, updated, i, answers[i]),
                       i + 1, answers)

Reconciled(frame, answers) ==
    FillValoreAttuale(
        ReconcileFrom(InitialUpdated(frame), InitialUpdated(frame), 1, answers))

Failures == { a \in Answers : a.kind # "price" }

\* the holding's symbol did not resolve, or its lookup raised or was empty
Unpriced(i) ==
    \/ feed[i].kind \in {"raise", "empty"}
    \/ /\ feed[i].kind = "none"
       /\ ExactEntries(portfolio_df, portfolio_df.rows[i]) = {}

\* C8 (as claimed): reconciliation returns with every holding visited, and
\* a failure on holding k never changes how the holdings after k are
\* reconciled: had holding k's lookup failed, every later holding would
\* come out as it did.
C8_FailureIsolated ==
    pc = "returned" =>
          /\ Len(feed) = Len(portfolio_df.rows)
          /\ \A k \in 1..Len(feed) : \A failure \in Failures :
                \A j \in (k + 1)..Len(feed) :
                    Reconciled(portfolio_df, [feed EXCEPT ![k] = failure]).rows[j]
                        = updated_df.rows[j]

\* C9 (as claimed): after reconciliation every holding whose symbol did not
\* resolve or whose lookup failed has a current value equal to its cost
\* value, also when no holding obtained a price.
C9_FallbackToCostValue ==
    pc = "returned" =>
        \A i \in 1..Len(updated_df.rows) :
            Unpriced(i) =>
                /\ "Valore Attuale" \in updated_df.cols
                /\ updated_df.rows[i]["Valore Attuale"]
                      = updated_df.rows[i]["Controvalore"]

\* C10 (as claimed): a holding whose lookup returned a price gets current
\* value = price * quantity, return = current value - cost value and
\* return % = return / cost value * 100, whatever its average price.
C10_ReturnAgainstCostValue ==
    pc = "returned" =>
        \A i \in 1..Len(updated_df.rows) :
            (/\ feed[i].kind = "price"
             /\ Present(portfolio_df.rows[i], "total_quantity")
             /\ RatLt(FromInt(0), Val(portfolio_df.rows[i]["total_quantity"]))
             /\ RatLt(FromInt(0), Val(portfolio_df.rows[i]["Controvalore"]))) =>
                LET cost == Val(portfolio_df.rows[i]["Controvalore"])
                    current == RatMul(feed[i].price,
                                      Val(portfolio_df.rows[i]["total_quantity"]))
                IN  /\ "Valore Attuale" \in updated_df.cols
                    /\ updated_df.rows[i]["Valore Attuale"] = Num(current)
                    /\ updated_df.rows[i]["Rendimento"] = Num(RatSub(current, cost))
                    /\ updated_df.rows[i]["Rendimento %"]
                          = Num(RatMul(RatDiv(RatSub(current, cost), cost),
                                       FromInt(100)))

(***************************************************************************)
(* C11.                                                                    *)
(***************************************************************************)
\* the columns update_portfolio_data writes to
WrittenColumns ==
    {"Prezzo Attuale", "Rendimento %", "Rendimento", "Valore Attuale"}

\* C11: reconciliation never changes the frame it is given, and in the
\* frame it returns every holding has the cells it came with in every
\* column but the price, return and current-value columns; in particular
\* its cost value (Controvalore) is the original one.
C11_OriginalUntouched ==
    /\ [][portfolio_df' = portfolio_df]_vars
    /\ [](pc \in {"loop", "returned", "displayed"} =>
             /\ Len(updated_df.rows) = Len(portfolio_df.rows)
             /\ portfolio_df.cols \subseteq updated_df.cols
             /\ \A i \in 1..Len(portfolio_df.rows) :
                   \A c \in portfolio_df.cols \ WrittenColumns :
                       updated_df.rows[i][c] = portfolio_df.rows[i][c])

\* C11 witness: reconciliation has returned a frame in which the first
\* holding has a current value and a return it did not come with
C11_Witness ==
    /\ pc = "returned"
    /\ Len(portfolio_df.rows) = 2
    /\ "Valore Attuale" \in updated_df.cols
    /\ "Valore Attuale" \notin portfolio_df.cols
    /\ updated_df.rows[1]["Rendimento"] # portfolio_df.rows[1]["Rendimento"]
    /\ updated_df.rows[1]["Controvalore"] = Int2Cell(1000)

(***************************************************************************)
(* C12.                                                                    *)
(***************************************************************************)
AllocationReady == pc = "allocated" \/ (pc = "done" /\ shown = "dashboard")

\* C12 (as claimed): when the total value of the holdings is not positive,
\* every row of the asset allocation has allocation 0, and on the ledger
\* path every holding's allocation percentage is 0 as well.
C12_ZeroTotalGivesZeroShares ==
    /\ (AllocationReady /\ ~RatLt(FromInt(0), SumColumn(df, "Controvalore"))) =>
          \A j \in 1..Len(asset_allocation.rows) :
              asset_allocation.rows[j]["allocation"] = Int2Cell(0)
    /\ (LedgerHoldingsReady /\ ~RatLt(FromInt(0), total_portfolio_value)) =>
          \A i \in 1..Len(df.rows) : df.rows[i]["Allocazione"] = Int2Cell(0)

C14_SummaryIsComputedTotals ==
    (pc = "displayed" /\ metric.shown) =>
        LET current == SumColumn(updated_df, "Valore Attuale")
            cost == SumColumn(updated_df, "Controvalore")
        IN  /\ metric.value = current
            /\ metric.return_value = RatSub(current, cost)
            /\ metric.return_percentage =
                  IF RatLt(FromInt(0), cost)
                  THEN RatMul(RatDiv(RatSub(current, cost), cost), FromInt(100))
                  ELSE FromInt(0)

(***************************************************************************)
(* C15.                                                                    *)
(***************************************************************************)
\* C15 (as claimed): after reconciliation every holding whose symbol did
\* not resolve or whose lookup failed has a missing return percentage and a
\* missing return value, whatever it came with.
C15_UnpricedReturnsUnavailable ==
    pc = "returned" =>
        \A i \in 1..Len(updated_df.rows) :
            Unpriced(i) =>
                /\ ~NotNa(updated_df.rows[i]["Rendimento %"])
                /\ ~NotNa(updated_df.rows[i]["Rendimento"])

(***************************************************************************)
(* C16.                                                                    *)
(***************************************************************************)
\* the ledger body of the uploaded sheet
Body == RelocateHeaderFrame(raw_df, header_row)

\* a row with a text where a number is expected
Malformed(row) ==
    \E c \in {"Quantita", "Prezzo", "Controvalore"} : row[c].t = "text"

\* the ledger body without its malformed rows
WellFormedBody ==
    [cols |-> Body.cols, rows |-> SelectSeq(Body.rows, LAMBDA r : ~Malformed(r))]

\* C16 (as claimed): when the ledger body has a row with an unparseable
\* number, the upload does not end in an error because of it, and the
\* holdings are those aggregated from the other rows.
C16_MalformedRowExcluded ==
    (/\ is_transaction_list
     /\ pc \in {"categorize", "allocate", "done"}
     /\ LedgerColumns \subseteq Body.cols
     /\ \E i \in 1..Len(Body.rows) : Malformed(Body.rows[i])
     /\ AggregateSecurities(WellFormedBody).rows # <<>>) =>
        /\ shown # "error"
        /\ pc = "categorize" => securities = AggregateSecurities(WellFormedBody)

(***************************************************************************)
(* C17.                                                                    *)
(***************************************************************************)
\* C17: no exception raised while the sheet is aggregated, classified or
\* allocated escapes the upload handler: the page never shows a raw
\* traceback, a step that raises ends the upload with the error message,
\* and the error message is shown only when a step raised.
C17_ExceptionsReported ==
    /\ shown \in {"", "error", "dashboard", "missing columns"}
    /\ pc = "done" => shown # ""
    /\ (pc = "done" /\ is_transaction_list /\ AggregationRaises(Body)) =>
          shown = "error"
    /\ shown = "error" =>
          /\ pc = "done"
          /\ is_transaction_list
          /\ AggregationRaises(Body) \/ securities.rows = <<>>

\* C17 witness: the aggregation of a ledger that has all its columns raised
\* on a text in the price column, and the upload ended with the error
\* message
C17_Witness ==
    /\ pc = "done"
    /\ shown = "error"
    /\ is_transaction_list
    /\ LedgerColumns \subseteq Body.cols
    /\ \E i \in 1..Len(Body.rows) : Body.rows[i]["Prezzo"].t = "text"

(***************************************************************************)
(* C18.                                                                    *)
(***************************************************************************)
\* the sheet has a header cell equal to Operazione: as a label of the
\* sheet's own header, or as a cell of a row
HasOperazioneHeader ==
    \/ "Operazione" \in raw_df.cols
    \/ \E i \in 1..Len(raw_df.rows) : \E c \in raw_df.cols :
          raw_df.rows[i][c] = Text(Sentinel)

\* C18 (as claimed): a sheet with a header cell equal to Operazione is
\* taken as a transaction ledger, also when that header is the first row
\* of the sheet, and is not rejected for missing holdings-table columns.
C18_LedgerDetectedByHeaderCell ==
    (pc # "uploaded" /\ HasOperazioneHeader) =>
        /\ is_transaction_list
        /\ shown # "missing columns"

(***************************************************************************)
(* C19.                                                                    *)
(***************************************************************************)
\* holdings i and j have the same quantity, average price and cost value
SameFigures(i, j) ==
    \A c \in {"total_quantity", "avg_price", "Controvalore"} \cap portfolio_df.cols :
        portfolio_df.rows[i][c] = portfolio_df.rows[j][c]

\* holding j's symbol resolves, and its price is the one holding i's lookup
\* returned (when no lookup was made for j, the service has the same answer)
SamePrice(i, j) ==
    /\ feed[i].kind = "price"
    /\ ResolveSymbol(portfolio_df, portfolio_df.rows[j]) # ""
    /\ feed[j].kind \in {"none", "price"}
    /\ feed[j].kind = "price" => feed[j].price = feed[i].price

\* C19 (as claimed): two holdings with the same figures and the same price
\* are reconciled to the same current value and the same returns whatever
\* their names, and the total shown is the total of the reconciled frame.
C19_NoHardcodedReturns ==
    /\ pc = "returned" =>
          \A i, j \in 1..Len(portfolio_df.rows) :
              (SameFigures(i, j) /\ SamePrice(i, j)) =>
                  \A c \in {"Valore Attuale", "Rendimento", "Rendimento %"}
                             \cap updated_df.cols :
                      updated_df.rows[i][c] = updated_df.rows[j][c]
    /\ (pc = "displayed" /\ metric.shown) =>
          metric.value = SumColumn(updated_df, "Valore Attuale")

(***************************************************************************)
(* C20.                                                                    *)
(***************************************************************************)
\* the rows of the asset allocation in the order they are emitted: the
\* groups in group order, then the synthesized rows in list order
Emitted ==
    IF is_transaction_list
    THEN LET grouped == GroupAllocation(df, "Categoria", "Controvalore")
         IN  EnsureClasses(grouped, ExistingClasses(grouped),
                           ledger_major_asset_classes).rows
    ELSE LET grouped == GroupAllocation(process_portfolio_data(df).data,
                                        "asset_class", "value")
         IN  EnsureClasses(grouped, ExistingClasses(grouped),
                           major_asset_classes).rows

EmissionIndex(row) == CHOOSE p \in 1..Len(Emitted) : Emitted[p] = row

\* C20 (as claimed): the rows of the asset allocation are in non-increasing
\* order of allocation, and rows with equal allocation are in the order in
\* which they were emitted.
C20_SortedDescendingStable ==
    AllocationReady =>
        \A j \in 1..(Len(asset_allocation.rows) - 1) :
            LET this == asset_allocation.rows[j]
                next == asset_allocation.rows[j + 1]
            IN  /\ ~IsNaN(Val(this["allocation"]))
                /\ ~IsNaN(Val(next["allocation"]))
                /\ ~RatLt(Val(this["allocation"]), Val(next["allocation"]))
                /\ this["allocation"] = next["allocation"] =>
                      EmissionIndex(this) < EmissionIndex(next)
(***************************************************************************)
(* C21.                                                                    *)
(***************************************************************************)
\* the holding's identifier code is in the exact-match table
IsinInTable(row) ==
    /\ "Isin" \in DOMAIN row
    /\ row["Isin"].t = "text"
    /\ \E k \in 1..Len(ISIN_TO_SYMBOL) : ISIN_TO_SYMBOL[k][1] = row["Isin"].s

\* the symbol the table has for the code: the one of the last entry
\* written for it
TableSymbol(row) ==
    LET k == CHOOSE k \in 1..Len(ISIN_TO_SYMBOL) :
                /\ ISIN_TO_SYMBOL[k][1] = row["Isin"].s
                /\ \A q \in (k + 1)..Len(ISIN_TO_SYMBOL) :
                      ISIN_TO_SYMBOL[q][1] # row["Isin"].s
    IN  ISIN_TO_SYMBOL[k][2]

\* C21 (as claimed): for every holding the loop has passed, a price was
\* looked up only with a symbol; a holding whose identifier code is in the
\* table was looked up with the table's symbol, whatever its name; and a
\* symbol inferred from the name was used only for a holding whose code is
\* missing or not in the table.
C21_IsinFirstThenName ==
    \A i \in 1..Len(symbols) :
        LET row == portfolio_df.rows[i] IN
        /\ feed[i].kind # "none" => symbols[i] # ""
        /\ IsinInTable(row) => symbols[i] = TableSymbol(row)
        /\ (~IsinInTable(row) /\ symbols[i] # "") =>
              /\ "Nome" \in DOMAIN row
              /\ symbols[i] = infer_symbol_from_name(Str(row["Nome"]))

(***************************************************************************)
(* C22.                                                                    *)
(***************************************************************************)
\* holding i got a price, has no quantity, and has an average price > 0
PricedWithoutQuantity(i) ==
    LET row == portfolio_df.rows[i] IN
    /\ feed[i].kind = "price"
    /\ ~Present(row, "total_quantity")
    /\ Present(row, "avg_price") /\ RatLt(FromInt(0), Val(row["avg_price"]))
    /\ Present(row, "Controvalore")

\* C22 (as claimed): a holding that got a price, has no quantity and has an
\* average price > 0 is returned with the current value
\* price * (cost value / average price).
C22_QuantityDerivedFromCost ==
    pc = "returned" =>
        \A i \in 1..Len(portfolio_df.rows) :
            PricedWithoutQuantity(i) =>
                LET row == portfolio_df.rows[i]
                    quantity == RatDiv(Val(row["Controvalore"]), Val(row["avg_price"]))
                IN  /\ "Valore Attuale" \in updated_df.cols
                    /\ updated_df.rows[i]["Valore Attuale"]
                          = Num(RatMul(feed[i].price, quantity))

(***************************************************************************)
(* C23.                                                                    *)
(***************************************************************************)
\* holding i got a price and its cost value is not > 0
PricedWithoutCost(i) ==
    LET row == portfolio_df.rows[i] IN
    /\ feed[i].kind = "price"
    /\ Present(row, "Controvalore")
    /\ ~RatLt(FromInt(0), Val(row["Controvalore"]))

\* C23 (as claimed): a holding that got a price and whose cost value is
\* not > 0 is returned with the return percentage 0, and no division by
\* zero was made for it.
C23_NoCostGivesZeroReturn ==
    pc = "returned" =>
        \A i \in 1..Len(portfolio_df.rows) :
            PricedWithoutCost(i) =>
                /\ updated_df.rows[i]["Rendimento %"] = Int2Cell(0)
                /\ ~RaisesAfterPrice(InitialUpdated(portfolio_df).rows[i])

(***************************************************************************)
(* C24.                                                                    *)
(***************************************************************************)
\* the rule table of the specification, in its order
LedgerRuleTable ==
    << [label |-> <<"A","z","i","o","n","a","r","i","o">>,
        keywords |-> { <<"c","r"," ","5","0","0">>, <<"m","s","c","i">>,
                       <<"e","q","u","i","t","y">>, <<"w","d">> }],
       [label |-> <<"O","b","b","l","i","g","a","z","i","o","n","a","r","i","o">>,
        keywords |-> { <<"g","o","v">>, <<"b","o","n","d">>,
                       <<"e","h","y","c","b">> }],
       [label |-> <<"M","a","t","e","r","i","e"," ","P","r","i","m","e">>,
        keywords |-> { <<"g","o","l","d">>, <<"o","r">>,
                       <<"c","o","m","m","o","d","i","t","y">> }] >>

LedgerRuleMatches(k, text) ==
    \E w \in LedgerRuleTable[k].keywords : Contains(text, w)

\* the label of the first rule with a keyword in the text, else Altro
FirstLedgerLabel(text) ==
    IF \E k \in 1..Len(LedgerRuleTable) : LedgerRuleMatches(k, text)
    THEN LedgerRuleTable[CHOOSE k \in 1..Len(LedgerRuleTable) :
            /\ LedgerRuleMatches(k, text)
            /\ \A q \in 1..(k - 1) : ~LedgerRuleMatches(q, text)].label
    ELSE <<"A","l","t","r","o">>

\* C24: the category of a security name is the label of the first rule of
\* the table with a keyword in the lower-cased name, Altro when none has;
\* it is always one of the four labels.
C24_LedgerClassifierFirstMatch ==
    pc = "categorized" =>
        /\ ledger_category = FirstLedgerLabel(Lower(nome_titolo))
        /\ ledger_category \in
              { LedgerRuleTable[k].label : k \in 1..Len(LedgerRuleTable) }
              \cup { <<"A","l","t","r","o">> }

\* C24 witness: a name with an upper-case keyword of the first rule and a
\* keyword of the third is Azionario
C24_Witness ==
    /\ pc = "categorized"
    /\ nome_titolo = <<"M","S","C","I","g","o","l","d">>
    /\ ledger_category = <<"A","z","i","o","n","a","r","i","o">>

(***************************************************************************)
(* C25.                                                                    *)
(***************************************************************************)
\* the rows of the sheet with a text cell of which Operazione, spelled so,
\* is a part
SubstringRows ==
    { i \in 1..Len(raw_df.rows) :
        \E c \in raw_df.cols :
            /\ raw_df.rows[i][c].t = "text"
            /\ Contains(raw_df.rows[i][c].s,
                        <<"O","p","e","r","a","z","i","o","n","e">>) }

\* C25: the sheet is taken as a ledger exactly when a row has a cell of
\* which Operazione, in this spelling, is a part; the header is then the
\* first such row, whatever that cell's other text and whatever the rows
\* after it; a row with another spelling only is no match.
C25_SentinelRawSubstring ==
    pc # "uploaded" =>
        /\ is_transaction_list = (SubstringRows # {})
        /\ IF SubstringRows = {} THEN header_row = -1
           ELSE /\ header_row + 1 \in SubstringRows
                /\ \A i \in SubstringRows : header_row + 1 <= i

\* C25 witness: the first row holds operazione only, the second is a header
\* whose first cell is Tipo Operazione, the third holds Riepilogo
\* Operazione and no transaction; the second row is the header
C25_Witness ==
    /\ pc = "ledger"
    /\ Len(raw_df.rows) = 3
    /\ raw_df.rows[1]["Lista Titoli"] = Text(<<"o","p","e","r","a","z","i","o","n","e">>)
    /\ raw_df.rows[2]["Lista Titoli"]
          = Text(<<"T","i","p","o"," ","O","p","e","r","a","z","i","o","n","e">>)
    /\ raw_df.rows[3]["Unnamed: 1"] = NaNCell
    /\ 3 \in SubstringRows
    /\ header_row = 1

(***************************************************************************)
(* C26.                                                                    *)
(***************************************************************************)
InRange0To100(q) ==
    /\ ~IsNaN(q)
    /\ ~RatLt(q, FromInt(0))
    /\ ~RatLt(FromInt(100), q)

\* C26 (as claimed): every holding aggregated from a ledger has a cost
\* value that is not negative and an allocation percentage from 0 to 100.
C26_CostAndShareInRange ==
    LedgerHoldingsReady =>
        \A i \in 1..Len(df.rows) :
            /\ ~IsNaN(Val(df.rows[i]["Controvalore"]))
            /\ ~RatLt(Val(df.rows[i]["Controvalore"]), FromInt(0))
            /\ InRange0To100(Val(df.rows[i]["Allocazione"]))

(***************************************************************************)
(* C27.                                                                    *)
(***************************************************************************)
\* the holdings in which row r of the ledger body is counted: those with
\* its name and, when it has one, its identifier code
HoldingsOf(r) ==
    { j \in 1..Len(securities.rows) :
        /\ securities.rows[j]["Titolo"] = r["Titolo"]
        /\ NotNa(r["Isin"]) => securities.rows[j]["Isin"] = r["Isin"] }

\* C27 (as claimed): every row of the ledger body that has a line value is
\* counted in exactly one holding, also when it has no identifier code, and
\* the total portfolio value is the sum of the line values of the body.
C27_AggregationConservesValue ==
    pc = "categorize" =>
        /\ \A i \in 1..Len(df.rows) :
              NotNa(df.rows[i]["Controvalore"]) =>
                  Cardinality(HoldingsOf(df.rows[i])) = 1
        /\ total_portfolio_value = SumColumn(df, "Controvalore")
        /\ SumColumn(securities, "total_value") = SumColumn(df, "Controvalore")

(***************************************************************************)
(* C28.                                                                    *)
(***************************************************************************)
\* C28 (as claimed): every keyword of the rule table is effective.  An
\* input that contains a keyword contains every text the keyword contains,
\* so some input with the keyword is classified by the keyword's rule iff
\* the keyword alone is: each keyword, given as the input, is classified
\* into the class of its rule.
C28_EveryKeywordEffective ==
    pc = "classified" =>
        \A r \in 1..Len(SpecRuleTable) :
            cat_in \in SpecRuleTable[r].kw => cat_out = SpecRuleTable[r].cls

(***************************************************************************)
(* C29.                                                                    *)
(***************************************************************************)
\* C29 (as claimed): every fragment of the table is reachable.  A name
\* that contains a fragment contains every text the fragment contains, so
\* some name returns the entry's symbol iff the fragment alone does: each
\* fragment, given as the name, returns the symbol written for it; and a
\* name that contains no fragment returns no symbol.
C29_EveryFragmentReachable ==
    pc = "inferred" =>
        /\ \A k \in 1..Len(common_etf_names) :
              nome_titolo = common_etf_names[k][1] =>
                  inferred = common_etf_names[k][2]
        /\ (\A k \in 1..Len(common_etf_names) :
               ~Contains(Lower(nome_titolo), common_etf_names[k][1])) =>
              inferred = ""

(***************************************************************************)
(* C30.                                                                    *)
(***************************************************************************)
\* C30 (as claimed): for a table with the seven required columns,
\* process_portfolio_data returns the sum of Controvalore, the sum of
\* Rendimento, and a return percentage that is a number: the total return
\* over (total value - total return), times 100, when the total value is
\* > 0, and 0 otherwise; the divisor is not zero when the division is made.
C30_TotalsWellDefined ==
    (pc = "processed" /\ RequiredSet \subseteq df.cols) =>
        LET total == SumColumn(df, "Controvalore")
            return == SumColumn(df, "Rendimento")
        IN  /\ portfolio_data.total_value = total
            /\ portfolio_data.total_return_value = return
            /\ IsFinite(portfolio_data.total_return_percentage)
            /\ IF RatLt(FromInt(0), total)
               THEN /\ RatSub(total, return) # FromInt(0)
                    /\ portfolio_data.total_return_percentage
                          = RatMul(RatDiv(return, RatSub(total, return)),
                                   FromInt(100))
               ELSE portfolio_data.total_return_percentage = FromInt(0)
=============================================================================
